---------------------------- MODULE Spec2Model ----------------------------
(***************************************************************************)
(* GitPins: repository order synchronisation and history rewrite engine.   *)
(*                                                                         *)
(*   cleanupRepoCommitsAutomatic   repos/cleanup-helper.ts                 *)
(*   POST /api/sync/[secret]       app/api/sync/[secret]/route.ts          *)
(*   checkRateLimit                lib/rate-limit.ts                       *)
(*                                                                         *)
(* Specifications: SpecCleanup (the cleanup alone), SpecGraph (the cleanup  *)
(* of a history with branches and merges), SpecRace (the cleanup of a      *)
(* repository that is pushed to), Spec (one sync run from the parsing of   *)
(* the stored order on), SpecBranches (a run on a repository with a main   *)
(* and a master branch), SpecTwo (two runs at the same time), SpecGate     *)
(* (the whole handler of one request), SpecOrder and SpecName              *)
(* (isRepoOrderCorrect and isValidName alone), SpecRateLimit (the limiter  *)
(* under concurrent calls).                                                *)
(*                                                                         *)
(* The hosting API is modelled as an object store of immutable,            *)
(* content-addressed commits plus mutable branch references, per           *)
(* repository.  Every remote call is one step; a remote call may throw.    *)
(***************************************************************************)
EXTENDS Integers, Sequences, FiniteSets, TLC

(***************************************************************************)
(* Bounds of the model.                                                    *)
(***************************************************************************)
\* longest initial history of the repository handed to a stand-alone cleanup
MaxHist == 6
\* listCommits per_page (100 in the source), scaled down
PerPage == 5
\* longest initial history of a repository processed by a sync run
MaxRunHist == 2
\* longest stored repository order
MaxRepos == 2
\* longest argument of a stand-alone isRepoOrderCorrect call
MaxOrderLen == 3
\* largest maxRequests of a rate-limit configuration (10 and 100 in the source)
MaxRequests == 3
\* windowMs of the rate-limit configuration (one hour or one minute in the
\* source), in clock ticks
WindowMs == 2
\* last clock tick
MaxTime == 6
\* longest enumerated argument of a stand-alone isValidName call
MaxSegLen == 2

\* commits of a history with branches and merges
MaxGraph == 5
\* longest initial history of a repository that is pushed to during a cleanup
MaxRaceHist == 3
\* pushes of the other actor during one cleanup
MaxPushes == 2
\* commits of the repository that two concurrent runs work on
MaxTwoHist == 3

Null == 0
\* an optional number that is absent from a returned object
Undefined == 0 - 1

(***************************************************************************)
(* Names.  A full name is a sequence of characters, "owner/repo".          *)
(***************************************************************************)
NameA == <<"u", "/", "a">>
NameB == <<"u", "/", "b">>
NameBad == <<".", ".", "/", "s">>
RepoNames == {NameA, NameB, NameBad}

\* repositories that exist on the hosting platform, keyed by <<owner, repo>>
RepoA == << <<"u">>, <<"a">> >>
RepoB == << <<"u">>, <<"b">> >>
Remote == {RepoA, RepoB}

\* "temp" and "backup" stand for the timestamped references of the run at
\* hand, "temp2" and "backup2" for those of a second, concurrent run
RefNames == {"main", "master", "temp", "backup", "temp2", "backup2"}

(***************************************************************************)
(* Sync secrets: sequences of characters.                                  *)
(***************************************************************************)
HexChars == {"0", "1", "2", "3", "4", "5", "6", "7", "8", "9",
             "a", "b", "c", "d", "e", "f", "A", "B", "C", "D", "E", "F"}

UuidLen == 36
UuidDashes == {9, 14, 19, 24}

\* /^[0-9a-f]{8}-[0-9a-f]{4}-[0-9a-f]{4}-[0-9a-f]{4}-[0-9a-f]{12}$/i.test(secret)
uuidRegexTest(s) ==
    /\ Len(s) = UuidLen
    /\ \A k \in 1..Len(s) :
          IF k \in UuidDashes THEN s[k] = "-" ELSE s[k] \in HexChars

UuidOf(c) == [k \in 1..UuidLen |-> IF k \in UuidDashes THEN "-" ELSE c]

\* the secret of the stored settings row, another well-formed secret, and
\* two malformed ones
SecretKnown == UuidOf("a")
SecretOther == UuidOf("B")
SecretNotHex == [UuidOf("a") EXCEPT ![1] = "g"]
SecretShort == SubSeq(UuidOf("a"), 1, UuidLen - 1)
Secrets == {SecretKnown, SecretOther, SecretNotHex, SecretShort}

\* `sync:${secret}`
SyncKey(s) == <<"s", "y", "n", "c", ":">> \o s
KeyOne == SyncKey(SecretKnown)
KeyTwo == SyncKey(SecretOther)

(***************************************************************************)
(* Commit objects.                                                         *)
(***************************************************************************)
\* message.includes('[GitPins]')
IsGitPins(message) == message.gp

RealMessage(k) == [gp |-> FALSE, txt |-> k]
MarkerMessage(k) == [gp |-> TRUE, txt |-> k]

Person(who, date) == [who |-> who, date |-> date]

MaxOf(S) == CHOOSE x \in S : \A y \in S : y <= x

\* the timestamp the hosting platform gives to a commit created without
\* an explicit committer: later than every commit already in the store
FreshDate(objects) ==
    IF Len(objects) = 0 THEN 1
    ELSE 1 + MaxOf({objects[s].committer.date : s \in 1..Len(objects)})

\* git objects are content-addressed: an identical commit has the same sha
ShaOf(objects, rec) ==
    IF \E s \in 1..Len(objects) : objects[s] = rec
    THEN CHOOSE s \in 1..Len(objects) : objects[s] = rec
    ELSE Len(objects) + 1

PutObject(objects, rec) ==
    IF \E s \in 1..Len(objects) : objects[s] = rec
    THEN objects
    ELSE Append(objects, rec)

ParentSet(objects, s) == {objects[s].parents[p] : p \in 1..Len(objects[s].parents)}

RECURSIVE Closure(_, _)
Closure(objects, S) ==
    LET T == S \cup UNION {ParentSet(objects, s) : s \in S}
    IN IF T = S THEN S ELSE Closure(objects, T)

\* commits reachable from sha (sha included); empty for a missing ref
Reachable(objects, sha) == IF sha = Null THEN {} ELSE Closure(objects, {sha})

\* the commit git log shows next: the most recent of the frontier
Newest(objects, F) ==
    CHOOSE c \in F : \A d \in F :
        \/ objects[d].committer.date < objects[c].committer.date
        \/ objects[d].committer.date = objects[c].committer.date /\ d <= c

RECURSIVE LogWalk(_, _, _, _, _)
LogWalk(objects, frontier, seen, out, limit) ==
    IF frontier = {} \/ Len(out) >= limit THEN out
    ELSE LET c == Newest(objects, frontier)
             ps == ParentSet(objects, c) \ seen
         IN LogWalk(objects, (frontier \ {c}) \cup ps, seen \cup ps,
                    Append(out, c), limit)

\* repos.listCommits({sha: branch, per_page}): first page of the log
ListCommits(objects, head, perPage) ==
    IF head = Null THEN <<>> ELSE LogWalk(objects, {head}, {head}, <<>>, perPage)

Reverse(s) == [k \in 1..Len(s) |-> s[Len(s) + 1 - k]]

(***************************************************************************)
(* Initial histories: a linear chain of real and marked commits.           *)
(***************************************************************************)
\* "gp": a marked commit of a bump, which leaves the files as they were
Kinds == {"real", "gp"}
\* "cfg": a marked commit that changes files, like the '[GitPins] Update
\* configuration' commits of the configuration repository
HistoryKinds == Kinds \cup {"cfg"}

RECURSIVE BuildHistory(_, _)
BuildHistory(kinds, k) ==
    IF k = 0 THEN <<>>
    ELSE LET prev == BuildHistory(kinds, k - 1)
             rec == IF kinds[k] = "real"
                    THEN [tree |-> k, message |-> RealMessage(k),
                          parents |-> IF k = 1 THEN <<>> ELSE <<k - 1>>,
                          author |-> Person("dev", k),
                          committer |-> Person("dev", k)]
                    ELSE [tree |-> IF kinds[k] = "cfg" THEN k
                                   ELSE IF k = 1 THEN 1 ELSE prev[k - 1].tree,
                          message |-> MarkerMessage(0),
                          parents |-> IF k = 1 THEN <<>> ELSE <<k - 1>>,
                          author |-> Person("app", k),
                          committer |-> Person("app", k)]
         IN Append(prev, rec)

KindSeqs(maxLen) == UNION {[1..n -> Kinds] : n \in 1..maxLen}

HistorySeqs(maxLen) == UNION {[1..n -> HistoryKinds] : n \in 1..maxLen}

NoRefs == [r \in RefNames |-> Null]

\* a repository whose only branch is its default branch; updated_at is the
\* time of its latest push
RepoWith(kinds, branch, stamp) ==
    [objects |-> BuildHistory(kinds, Len(kinds)),
     refs |-> [NoRefs EXCEPT ![branch] = Len(kinds)],
     default_branch |-> branch,
     updated_at |-> stamp]

(***************************************************************************)
(* State.                                                                  *)
(***************************************************************************)
VARIABLES
    repos,          \* hosting platform: repository -> objects, refs, default_branch
    reposOrder,     \* settings store: repoOrder.reposOrder, parsed
    topN,           \* settings store: repoOrder.topN
    commitStrategy, \* settings store: repoOrder.commitStrategy
    account,        \* settings store: the other fields of the repoOrder row
    secret,         \* POST: the secret of the request path
    pc,             \* position of the POST handler
    reposToSync,    \* POST: reposToSync
    currentOrder,   \* POST: currentOrder
    isOrdered,      \* POST: isOrdered
    it,             \* POST: number of the loop iteration, from 1
    loc,            \* POST: locals of the loop body
    results,        \* POST: results
    syncLog,        \* audit store: actions of the records written by the run
    response,       \* POST: the JSON answer
    cpc,            \* position of cleanupRepoCommitsAutomatic
    crepo,          \* cleanup: <<owner, repo>>
    cl,             \* cleanup: locals
    cresult,        \* cleanup: returned object
    preHead,        \* history: default-branch HEAD when cleanup was called
    issued,         \* history: kinds of remote calls issued so far
    lastCallPos,    \* history: loop position of the latest remote call
    visits,         \* history: how often each loop position was processed
    bump,           \* history: outcome of the bump of each loop position
    ordIn,          \* isRepoOrderCorrect: arguments
    ordOut,         \* isRepoOrderCorrect: returned value
    valIn,          \* isValidName: argument
    valOut,         \* isValidName: returned value
    now,            \* Date.now()
    rateLimitStore, \* rate-limit: identifier -> entry
    rlConfig,       \* rate-limit: the RateLimitConfig of the calls
    rlResult,       \* rate-limit: latest RateLimitResult
    granted,        \* history: admitted calls on the entry of each identifier
    calls,          \* history: calls of each identifier in its window by the clock
    rlCall,         \* history: identifier and time of the latest call
    recent,         \* history: admitted calls of each identifier by age in ticks
    other           \* a second request in flight: its handler's variables

envVars == <<repos>>
setVars == <<reposOrder, topN, commitStrategy, account>>
reqVars == <<secret, other>>
runVars == <<pc, reposToSync, currentOrder, isOrdered, it, loc, results, syncLog, response>>
clnVars == <<cpc, crepo, cl, cresult, preHead>>
histVars == <<issued, lastCallPos, visits, bump>>
ordVars == <<ordIn, ordOut, valIn, valOut>>
rlVars == <<now, rateLimitStore, rlConfig, rlResult, granted, calls, rlCall, recent>>
vars == <<repos, reposOrder, topN, commitStrategy, account, secret, pc, reposToSync,
          currentOrder, isOrdered, it, loc, results, syncLog, response, cpc, crepo, cl,
          cresult, preHead, issued, lastCallPos, visits, bump, ordIn,
          ordOut, valIn, valOut, now, rateLimitStore, rlConfig, rlResult, granted, calls, rlCall,
          recent, other>>

(***************************************************************************)
(* cleanupRepoCommitsAutomatic                                             *)
(***************************************************************************)
Store == repos[crepo]

\* mutation: a push moves the reference and leaves updated_at as it was
SetRefKeepsStamp(r, name, sha) == [repos EXCEPT ![r].refs[name] = sha]

\* a push to repository r: the reference moves and r becomes the most
\* recently updated repository
SetRef(r, name, sha) ==
    [repos EXCEPT ![r].refs[name] = sha,
                  ![r].updated_at = 1 + MaxOf({repos[x].updated_at : x \in Remote})]

EmptyMap == [s \in {} |-> Null]

NoLocals ==
    [defaultBranch |-> "", commits |-> <<>>, removed |-> 0, walk |-> 0,
     lastRecreatedSha |-> Null, commitMapping |-> EmptyMap,
     fullCommit |-> Null]

NoResult == [status |-> "", method |-> "", removedCommits |-> Undefined,
             newHead |-> Null, error |-> ""]

CleanupError(msg) ==
    [status |-> "error", method |-> "none", removedCommits |-> Undefined,
     newHead |-> Null, error |-> msg]

\* position of the loop body that is making remote calls, 0 outside a run
CallPos == IF pc \in {"idle", "start"} THEN 0 ELSE loc.position

Issue(op) ==
    /\ issued' = issued \cup {op}
    /\ lastCallPos' = CallPos

\* commits.filter(c => c.commit.message.includes('[GitPins]')).length
CountGitPins(objects, commits) ==
    Cardinality({k \in 1..Len(commits) : IsGitPins(objects[commits[k]].message)})

\* the next commit of commitsReversed, from index k on, that the walk
\* does not skip; Len + 1 when the walk is over
RECURSIVE NextReal(_, _, _)
NextReal(objects, rev, k) ==
    IF k > Len(rev) THEN k
    ELSE IF IsGitPins(objects[rev[k]].message) THEN NextReal(objects, rev, k + 1)
    ELSE k

InWindowGitPins(objects, commits, sha) ==
    \E k \in 1..Len(commits) :
        commits[k] = sha /\ IsGitPins(objects[commits[k]].message)

RECURSIVE MapParents(_, _, _, _, _)
MapParents(objects, commits, parents, mapping, k) ==
    IF k > Len(parents) THEN <<>>
    ELSE LET rest == MapParents(objects, commits, parents, mapping, k + 1)
         IN IF parents[k] \in DOMAIN mapping
               THEN <<mapping[parents[k]]>> \o rest
            ELSE IF ~InWindowGitPins(objects, commits, parents[k])
               THEN <<parents[k]>> \o rest
            ELSE rest

\* mutation: the fallback to the last recreated commit is missing
NewParentsNoFallback(objects, commits, parents, mapping, last) ==
    IF Len(parents) = 0 THEN <<>>
    ELSE MapParents(objects, commits, parents, mapping, 1)

\* mutation: a marked parent of the window is kept as a parent
NewParentsKeepMarked(objects, commits, parents, mapping, last) ==
    IF Len(parents) = 0 THEN <<>>
    ELSE LET mapped == MapParents(objects, <<>>, parents, mapping, 1)
         IN IF Len(mapped) = 0 /\ last # Null THEN <<last>> ELSE mapped

NewParents(objects, commits, parents, mapping, last) ==
    IF Len(parents) = 0 THEN <<>>
    ELSE LET mapped == MapParents(objects, commits, parents, mapping, 1)
         IN IF Len(mapped) = 0 /\ last # Null THEN <<last>> ELSE mapped

NotInCleanup == UNCHANGED <<setVars, reqVars, runVars, ordVars, rlVars, crepo,
                            preHead, visits, bump>>

CleanupReturns(res) ==
    /\ cresult' = res
    /\ cpc' = "done"

CleanupReposGet ==
    /\ cpc = "reposGet"
    /\ cl' = [cl EXCEPT !.defaultBranch = Store.default_branch]
    /\ cpc' = "listCommits"
    /\ Issue("repos.get")
    /\ UNCHANGED <<repos, cresult>>
    /\ NotInCleanup

CleanupListCommits ==
    /\ cpc = "listCommits"
    /\ LET commits == ListCommits(Store.objects, Store.refs[cl.defaultBranch], PerPage)
           n == CountGitPins(Store.objects, commits)
       IN /\ cl' = [cl EXCEPT !.commits = commits, !.removed = n]
          /\ IF n = 0
             THEN CleanupReturns([status |-> "success", method |-> "none",
                                  removedCommits |-> 0, newHead |-> Null,
                                  error |-> "No GitPins commits found"])
             ELSE cpc' = "createBackup" /\ UNCHANGED cresult
    /\ Issue("listCommits")
    /\ UNCHANGED repos
    /\ NotInCleanup

\* mutation: a failed createRef of the backup is swallowed and the walk goes on
CleanupBackupFailsIgnored ==
    /\ cpc = "createBackup"
    /\ LET first == NextReal(Store.objects, Reverse(cl.commits), 1)
       IN /\ cl' = [cl EXCEPT !.walk = first]
          /\ IF first > Len(cl.commits)
             THEN CleanupReturns(CleanupError("No non-GitPins commits found to recreate"))
             ELSE cpc' = "getCommit" /\ UNCHANGED cresult
    /\ Issue("createRef")
    /\ UNCHANGED repos
    /\ NotInCleanup

CleanupBackupFails ==
    /\ cpc = "createBackup"
    /\ CleanupReturns(CleanupError("Failed to create backup branch"))
    /\ Issue("createRef")
    /\ UNCHANGED <<repos, cl>>
    /\ NotInCleanup

\* mutation: the walk that recreated nothing still moves the branch
CleanupCreateBackupNoCheck ==
    /\ cpc = "createBackup"
    /\ repos' = SetRef(crepo, "backup", cl.commits[1])
    /\ LET first == NextReal(Store.objects, Reverse(cl.commits), 1)
       IN /\ cl' = [cl EXCEPT !.walk = first]
          /\ cpc' = IF first > Len(cl.commits) THEN "updateRef" ELSE "getCommit"
          /\ UNCHANGED cresult
    /\ Issue("createRef")
    /\ NotInCleanup

CleanupCreateBackup ==
    /\ cpc = "createBackup"
    /\ repos' = SetRef(crepo, "backup", cl.commits[1])
    /\ LET first == NextReal(Store.objects, Reverse(cl.commits), 1)
       IN /\ cl' = [cl EXCEPT !.walk = first]
          /\ IF first > Len(cl.commits)
             THEN CleanupReturns(CleanupError("No non-GitPins commits found to recreate"))
             ELSE cpc' = "getCommit" /\ UNCHANGED cresult
    /\ Issue("createRef")
    /\ NotInCleanup

CleanupGetCommit ==
    /\ cpc = "getCommit"
    /\ cl' = [cl EXCEPT !.fullCommit = Store.objects[Reverse(cl.commits)[cl.walk]]]
    /\ cpc' = "createCommit"
    /\ Issue("getCommit")
    /\ UNCHANGED <<repos, cresult>>
    /\ NotInCleanup

CleanupCreateCommit ==
    /\ cpc = "createCommit"
    /\ LET rev == Reverse(cl.commits)
           full == cl.fullCommit
           rec == [tree |-> full.tree, message |-> full.message,
                   parents |-> NewParents(Store.objects, cl.commits, full.parents,
                                          cl.commitMapping, cl.lastRecreatedSha),
                   author |-> full.author, committer |-> full.committer]
           newSha == ShaOf(Store.objects, rec)
           next == NextReal(Store.objects, rev, cl.walk + 1)
       IN /\ repos' = [repos EXCEPT ![crepo].objects = PutObject(@, rec)]
          /\ cl' = [cl EXCEPT !.commitMapping = (rev[cl.walk] :> newSha) @@ @,
                              !.lastRecreatedSha = newSha,
                              !.walk = next,
                              !.fullCommit = Null]
          /\ cpc' = IF next > Len(rev) THEN "updateRef" ELSE "getCommit"
    /\ Issue("createCommit")
    /\ UNCHANGED cresult
    /\ NotInCleanup

CleanupUpdateRef ==
    /\ cpc = "updateRef"
    /\ repos' = SetRef(crepo, cl.defaultBranch, cl.lastRecreatedSha)
    /\ CleanupReturns([status |-> "success", method |-> "rewrite",
                       removedCommits |-> cl.removed,
                       newHead |-> cl.lastRecreatedSha, error |-> ""])
    /\ Issue("updateRef")
    /\ UNCHANGED cl
    /\ NotInCleanup

CleanupOp ==
    CASE cpc = "reposGet" -> "repos.get"
      [] cpc = "listCommits" -> "listCommits"
      [] cpc = "getCommit" -> "getCommit"
      [] cpc = "createCommit" -> "createCommit"
      [] cpc = "updateRef" -> "updateRef"

\* a remote call other than the backup createRef throws: catch at the end
CleanupThrows ==
    /\ cpc \in {"reposGet", "listCommits", "getCommit", "createCommit", "updateRef"}
    /\ CleanupReturns(CleanupError("Unknown error"))
    /\ Issue(CleanupOp)
    /\ UNCHANGED <<repos, cl>>
    /\ NotInCleanup

CleanupStep ==
    \/ CleanupReposGet
    \/ CleanupListCommits
    \/ CleanupCreateBackup
    \/ CleanupBackupFails
    \/ CleanupGetCommit
    \/ CleanupCreateCommit
    \/ CleanupUpdateRef
    \/ CleanupThrows

(***************************************************************************)
(* Stand-alone cleanup of one repository with an arbitrary history.        *)
(***************************************************************************)
NoLoc ==
    [position |-> 0, owner |-> <<>>, repo |-> <<>>, defaultBranch |-> "",
     sha |-> Null, tree |-> Null, newCommit |-> Null, revertCommit |-> Null]

\* Retry-After, X-RateLimit-Remaining and X-RateLimit-Reset
NoHeaders == [retryAfter |-> Undefined, remaining |-> Undefined, reset |-> Undefined]

NoResponse ==
    [status |-> 0, message |-> "", error |-> "", skipped |-> FALSE, synced |-> Null,
     failed |-> Null, headers |-> NoHeaders]

\* no second request is in flight
NoOther == [pc |-> "none"]

IdleRun ==
    /\ pc = "idle"
    /\ reposToSync = <<>>
    /\ currentOrder = <<>>
    /\ it = 0
    /\ loc = NoLoc
    /\ results = <<>>
    /\ syncLog = <<>>
    /\ response = NoResponse
    /\ isOrdered = FALSE

\* a settings row whose user has the app installed and automation enabled
DefaultAccount ==
    [syncSecret |-> SecretKnown, user |-> TRUE, installationId |-> TRUE,
     autoEnabled |-> TRUE, stored |-> "array"]

IdleSettings ==
    /\ reposOrder = <<>>
    /\ topN = 0
    /\ commitStrategy = "revert"
    /\ account = DefaultAccount
    /\ secret = SecretKnown
    /\ other = NoOther

IdleHistory ==
    /\ issued = {}
    /\ lastCallPos = 0
    /\ visits = <<>>
    /\ bump = <<>>

IdleOrder ==
    /\ ordIn = [currentOrder |-> <<>>, desiredOrder |-> <<>>, topN |-> 0]
    /\ ordOut = <<>>
    /\ valIn = <<>>
    /\ valOut = <<>>

NoRateLimitResult == [success |-> FALSE, remaining |-> 0, resetTime |-> 0]

NoRateLimitCall == [identifier |-> <<>>, at |-> 0]

IdleRateLimit ==
    /\ now = 1
    /\ rateLimitStore = EmptyMap
    /\ rlConfig = [windowMs |-> WindowMs, maxRequests |-> 1]
    /\ rlResult = NoRateLimitResult
    /\ granted = EmptyMap
    /\ calls = EmptyMap
    /\ rlCall = NoRateLimitCall
    /\ recent = EmptyMap

IdleCleanup ==
    /\ cpc = "idle"
    /\ crepo = RepoA
    /\ cl = NoLocals
    /\ cresult = NoResult
    /\ preHead = Null

DefaultBranchOf(r) == IF r = RepoA THEN "main" ELSE "master"

DefaultRepo(r, stamp) == RepoWith(<<"real">>, DefaultBranchOf(r), stamp)

InitCleanup ==
    /\ \E kinds \in HistorySeqs(MaxHist), branch \in {"main", "master"} :
           repos = [r \in Remote |-> IF r = RepoA THEN RepoWith(kinds, branch, 2)
                                     ELSE DefaultRepo(r, 1)]
    /\ cpc = "reposGet"
    /\ crepo = RepoA
    /\ cl = NoLocals
    /\ cresult = NoResult
    /\ preHead = repos[RepoA].refs[repos[RepoA].default_branch]
    /\ IdleRun /\ IdleSettings /\ IdleHistory /\ IdleOrder /\ IdleRateLimit

NextCleanup == CleanupStep

SpecCleanup == InitCleanup /\ [][NextCleanup]_vars

(***************************************************************************)
(* Properties of cleanupRepoCommitsAutomatic.                              *)
(***************************************************************************)
Objs == Store.objects
HeadNow == Store.refs[Store.default_branch]
Backup == Store.refs["backup"]

IsReal(s) == ~IsGitPins(Objs[s].message)

SameContent(a, b) ==
    /\ Objs[a].tree = Objs[b].tree
    /\ Objs[a].message = Objs[b].message
    /\ Objs[a].author = Objs[b].author
    /\ Objs[a].committer = Objs[b].committer

\* the cleanup returned {status: 'success', method: 'rewrite'}
Rewritten ==
    cpc = "done" /\ cresult.status = "success" /\ cresult.method = "rewrite"

Window == {cl.commits[k] : k \in 1..Len(cl.commits)}
MarkedInWindow == {s \in Window : ~IsReal(s)}

\* the fetched window is a chain: each commit's only parent is the next one
WindowLinear ==
    \A k \in 1..(Len(cl.commits) - 1) :
        Objs[cl.commits[k]].parents = <<cl.commits[k + 1]>>

\* the fetched window is the whole history of the default branch
WindowIsHistory == Reachable(Objs, preHead) = Window

\* C1: after a successful cleanup every real commit that was reachable from
\* the old HEAD, inside or below the fetched window, is reachable from the
\* new HEAD as itself or as a copy with the same tree, message, author and
\* committer, and real commits keep their ancestor order.
C1HistoryPreserved ==
    Rewritten =>
        LET before == {c \in Reachable(Objs, preHead) : IsReal(c)}
            after == Reachable(Objs, HeadNow)
        IN /\ \A c \in before : \E c2 \in after : SameContent(c, c2)
           /\ \A c, d \in before :
                 c \in Reachable(Objs, d) =>
                     \E c2, d2 \in after :
                        /\ SameContent(c, c2)
                        /\ SameContent(d, d2)
                        /\ c2 \in Reachable(Objs, d2)

\* index in the window of the nearest real commit older than position k,
\* 0 when there is none
OlderReal(k) ==
    LET S == {j \in (k + 1)..Len(cl.commits) : IsReal(cl.commits[j])}
    IN IF S = {} THEN 0 ELSE CHOOSE j \in S : \A x \in S : j <= x

\* C2: on a linear window, the copy of a real commit has exactly one
\* parent, the copy of the nearest older real commit of the window, however
\* many marked commits lay between the two; it is never a marked commit.
C2ParentRemap ==
    (Rewritten /\ WindowLinear) =>
        \A k \in 1..Len(cl.commits) :
            (IsReal(cl.commits[k]) /\ OlderReal(k) # 0) =>
                /\ Objs[cl.commitMapping[cl.commits[k]]].parents =
                       <<cl.commitMapping[cl.commits[OlderReal(k)]]>>
                /\ SameContent(cl.commitMapping[cl.commits[OlderReal(k)]],
                               cl.commits[OlderReal(k)])
                /\ IsReal(Objs[cl.commitMapping[cl.commits[k]]].parents[1])

\* the window was A -> M -> B -> C and it was rewritten
C2Witness ==
    /\ Rewritten
    /\ Len(cl.commits) = 4
    /\ IsReal(cl.commits[4]) /\ ~IsReal(cl.commits[3])
    /\ IsReal(cl.commits[2]) /\ IsReal(cl.commits[1])
    /\ Objs[cl.commits[4]].parents = <<>>
    /\ Objs[cl.commitMapping[cl.commits[2]]].parents = <<cl.commitMapping[cl.commits[4]]>>
    /\ Objs[HeadNow].parents = <<cl.commitMapping[cl.commits[2]]>>

C4BackupFirst ==
    /\ (cpc \in {"getCommit", "createCommit", "updateRef"} \/ Rewritten) =>
           Backup # Null /\ Backup = preHead
    /\ HeadNow # preHead => Backup # Null /\ Backup = preHead
    /\ "createCommit" \in issued => Backup # Null /\ Backup = preHead
    /\ (cpc = "done" /\ cresult.error = "Failed to create backup branch") =>
           /\ "createCommit" \notin issued
           /\ "updateRef" \notin issued
           /\ HeadNow = preHead
    /\ Backup # Null => Reachable(Objs, preHead) \subseteq Reachable(Objs, Backup)

\* the branch was moved, with the backup at the old HEAD
C4Witness ==
    /\ Rewritten
    /\ HeadNow # preHead
    /\ Backup = preHead
    /\ "updateRef" \in issued

\* the fetched window is not empty and every commit of it is marked
AllMarkedWindow ==
    /\ Len(cl.commits) > 0
    /\ \A k \in 1..Len(cl.commits) : ~IsReal(cl.commits[k])

\* C19 as stated: when every commit of the fetched window is marked, the
\* cleanup reports zero removed commits and the default branch still points
\* at the commit it pointed at before the call.
C19AllMarkedZero ==
    (cpc = "done" /\ AllMarkedWindow) =>
        /\ cresult.removedCommits = 0
        /\ HeadNow = preHead

\* C19 amended: when every commit of the fetched window is marked, the
\* cleanup returns status 'error' with method 'none' and no removedCommits
\* count, creates no commit and leaves the default branch where it was; a
\* backup reference at the old HEAD was created unless creating it failed.
C19AllMarkedError ==
    (cpc = "done" /\ AllMarkedWindow) =>
        /\ cresult.status = "error"
        /\ cresult.method = "none"
        /\ cresult.removedCommits = Undefined
        /\ cresult.newHead = Null
        /\ cresult.error \in {"No non-GitPins commits found to recreate",
                              "Failed to create backup branch"}
        /\ cresult.error = "No non-GitPins commits found to recreate" => Backup = preHead
        /\ cresult.error = "Failed to create backup branch" => Backup = Null
        /\ HeadNow = preHead
        /\ "createCommit" \notin issued
        /\ "updateRef" \notin issued

\* a window of marked commits only, with an older real commit below it,
\* was walked to its end
C19Witness ==
    /\ cpc = "done"
    /\ AllMarkedWindow
    /\ Len(cl.commits) = PerPage
    /\ Cardinality(Reachable(Objs, preHead)) > PerPage
    /\ cresult.error = "No non-GitPins commits found to recreate"
    /\ Backup = preHead
    /\ HeadNow = preHead

\* C24: after a successful cleanup the tree of the default-branch HEAD is
\* the tree of the HEAD before the cleanup, for every history, also one in
\* which a marked commit changed files.
C24TreePreserved ==
    (cpc = "done" /\ cresult.status = "success") =>
        Objs[HeadNow].tree = Objs[preHead].tree

(***************************************************************************)
(* Cleanup of a history with branches and merge commits.                   *)
(***************************************************************************)
\* parents a commit numbered k may have: none, one older commit, or two
ParentChoices(k) ==
    {<<>>} \cup {<<a>> : a \in 1..(k - 1)}
           \cup {<<a, b>> : a \in 2..(k - 1), b \in 1..(k - 2)}

\* the parent lists of the commits 1..n, older commits first
RECURSIVE Graphs(_)
Graphs(n) ==
    IF n = 0 THEN {<<>>}
    ELSE {Append(g, p) : g \in Graphs(n - 1),
                         p \in {q \in ParentChoices(n) : Len(q) < 2 \/ q[1] > q[2]}}

\* commits numbered in the order of their dates; a marked commit keeps the
\* tree of its first parent
RECURSIVE BuildGraph(_, _, _)
BuildGraph(kinds, parents, k) ==
    IF k = 0 THEN <<>>
    ELSE LET prev == BuildGraph(kinds, parents, k - 1)
             rec == IF kinds[k] = "real"
                    THEN [tree |-> k, message |-> RealMessage(k),
                          parents |-> parents[k],
                          author |-> Person("dev", k),
                          committer |-> Person("dev", k)]
                    ELSE [tree |-> IF parents[k] = <<>> THEN 1
                                   ELSE prev[parents[k][1]].tree,
                          message |-> MarkerMessage(0),
                          parents |-> parents[k],
                          author |-> Person("app", k),
                          committer |-> Person("app", k)]
         IN Append(prev, rec)

\* a repository whose default branch is the merge of all its commits
GraphRepo(kinds, parents, stamp) ==
    [objects |-> BuildGraph(kinds, parents, Len(kinds)),
     refs |-> [NoRefs EXCEPT !["main"] = Len(kinds)],
     default_branch |-> "main",
     updated_at |-> stamp]

InitGraph ==
    /\ \E n \in 1..MaxGraph :
         \E kinds \in [1..n -> Kinds], parents \in Graphs(n) :
           /\ Reachable(BuildGraph(kinds, parents, n), n) = 1..n
           /\ repos = [r \in Remote |-> IF r = RepoA THEN GraphRepo(kinds, parents, 2)
                                        ELSE DefaultRepo(r, 1)]
    /\ cpc = "reposGet"
    /\ crepo = RepoA
    /\ cl = NoLocals
    /\ cresult = NoResult
    /\ preHead = repos[RepoA].refs[repos[RepoA].default_branch]
    /\ IdleRun /\ IdleSettings /\ IdleHistory /\ IdleOrder /\ IdleRateLimit

NextGraph == CleanupStep

SpecGraph == InitGraph /\ [][NextGraph]_vars

\* the commits of the graph the cleanup started from
Original == Reachable(Objs, preHead)

\* commits that were ancestors of c, c excluded, in the original graph
Ancestors(c) ==
    UNION {Reachable(Objs, Objs[c].parents[p]) : p \in 1..Len(Objs[c].parents)}

\* C22: every parent given to the recreated copy of a commit c is an
\* ancestor of c in the original graph, or the recreated copy of one, on
\* histories with branches and merges too.
C22AncestryPreserved ==
    \A c \in DOMAIN cl.commitMapping :
        LET copy == cl.commitMapping[c]
        IN \A p \in 1..Len(Objs[copy].parents) :
              \E a \in Ancestors(c) :
                 \/ Objs[copy].parents[p] = a
                 \/ a \in DOMAIN cl.commitMapping
                    /\ Objs[copy].parents[p] = cl.commitMapping[a]

(***************************************************************************)
(* Cleanup of a repository that another actor pushes to.                   *)
(***************************************************************************)
\* commits pushed by the other actor
Pushed(objects) == {s \in 1..Len(objects) : objects[s].author.who = "other"}

\* between the listing and the force-update of the cleanup, somebody pushes
\* one new commit, with new content, on top of the default branch
RacingPush ==
    /\ cpc \in {"createBackup", "getCommit", "createCommit", "updateRef"}
    /\ Cardinality(Pushed(Store.objects)) < MaxPushes
    /\ LET objects == Store.objects
           head == Store.refs[Store.default_branch]
           rec == [tree |-> FreshDate(objects),
                   message |-> RealMessage(FreshDate(objects)),
                   parents |-> <<head>>,
                   author |-> Person("other", FreshDate(objects)),
                   committer |-> Person("other", FreshDate(objects))]
       IN repos' = [SetRef(crepo, Store.default_branch, ShaOf(objects, rec))
                       EXCEPT ![crepo].objects = PutObject(@, rec)]
    /\ UNCHANGED <<cpc, cl, cresult, issued, lastCallPos>>
    /\ NotInCleanup

InitRace ==
    /\ \E kinds \in KindSeqs(MaxRaceHist) :
           repos = [r \in Remote |-> IF r = RepoA THEN RepoWith(kinds, "main", 2)
                                     ELSE DefaultRepo(r, 1)]
    /\ cpc = "reposGet"
    /\ crepo = RepoA
    /\ cl = NoLocals
    /\ cresult = NoResult
    /\ preHead = repos[RepoA].refs[repos[RepoA].default_branch]
    /\ IdleRun /\ IdleSettings /\ IdleHistory /\ IdleOrder /\ IdleRateLimit

NextRace == CleanupStep \/ RacingPush

SpecRace == InitRace /\ [][NextRace]_vars

\* C30: a commit that another actor pushed to the default branch between
\* the listing and the force-update of a cleanup is reachable, after that
\* cleanup, from the default branch or from the backup reference.
C30RacingPushKept ==
    Rewritten =>
        \A c \in Pushed(Objs) :
            c \in Reachable(Objs, HeadNow) \cup Reachable(Objs, Backup)

(***************************************************************************)
(* POST /api/sync/[secret]: helpers.                                       *)
(***************************************************************************)
MaxNameLen == 100

Lower == {"a", "b", "c", "d", "e", "f", "g", "h", "i", "j", "k", "l", "m",
          "n", "o", "p", "q", "r", "s", "t", "u", "v", "w", "x", "y", "z"}
Upper == {"A", "B", "C", "D", "E", "F", "G", "H", "I", "J", "K", "L", "M",
          "N", "O", "P", "Q", "R", "S", "T", "U", "V", "W", "X", "Y", "Z"}
Digits == {"0", "1", "2", "3", "4", "5", "6", "7", "8", "9"}

\* characters that match [a-zA-Z0-9._-]
NameChars == Lower \cup Upper \cup Digits \cup {".", "_", "-"}

\* index of the first "/" of s at or after k, Len(s) + 1 when there is none
RECURSIVE SlashFrom(_, _)
SlashFrom(s, k) ==
    IF k > Len(s) THEN k
    ELSE IF s[k] = "/" THEN k ELSE SlashFrom(s, k + 1)

\* const [owner, repo] = repoFullName.split('/'); a missing second segment
\* is undefined, which the validator treats like the empty string
SplitOwner(full) == SubSeq(full, 1, SlashFrom(full, 1) - 1)
SplitRepo(full) ==
    LET a == SlashFrom(full, 1)
    IN IF a > Len(full) THEN <<>>
       ELSE SubSeq(full, a + 1, SlashFrom(full, a + 1) - 1)

\* mutation: a leading dot is not refused
isValidNameLeadingDot(name) ==
    IF Len(name) = 0 \/ Len(name) > MaxNameLen THEN FALSE
    ELSE IF name = <<".">> \/ name = <<".", ".">> THEN FALSE
    ELSE \A k \in 1..Len(name) : name[k] \in NameChars

isValidName(name) ==
    IF Len(name) = 0 \/ Len(name) > MaxNameLen THEN FALSE
    ELSE IF name[1] = "." THEN FALSE
    ELSE IF name = <<".">> \/ name = <<".", ".">> THEN FALSE
    ELSE \A k \in 1..Len(name) : name[k] \in NameChars

FullName(r) == r[1] \o <<"/">> \o r[2]

\* lib/security: /^[a-zA-Z0-9._-]{1,100}$/.test(name)
isValidRepoName(name) ==
    /\ Len(name) >= 1
    /\ Len(name) <= MaxNameLen
    /\ \A k \in 1..Len(name) : name[k] \in NameChars

\* fullName.split('/').length
PartsCount(full) == 1 + Cardinality({k \in 1..Len(full) : full[k] = "/"})

\* lib/security: the validator of the settings-save operation
isValidRepoFullName(full) ==
    IF PartsCount(full) # 2 THEN FALSE
    ELSE isValidRepoName(SplitOwner(full)) /\ isValidRepoName(SplitRepo(full))

\* Array.prototype.slice(0, end)
Slice(s, end) ==
    LET e == IF end < 0 THEN (IF Len(s) + end < 0 THEN 0 ELSE Len(s) + end)
             ELSE (IF end > Len(s) THEN Len(s) ELSE end)
    IN SubSeq(s, 1, e)

RECURSIVE PositionsMatch(_, _, _)
PositionsMatch(currentTop, desiredTop, i) ==
    IF i > Len(desiredTop) THEN TRUE
    ELSE IF currentTop[i] # desiredTop[i] THEN FALSE
    ELSE PositionsMatch(currentTop, desiredTop, i + 1)

\* mutation: the check that there are enough repositories is missing
isRepoOrderCorrectNoLength(current, desired, n) ==
    LET currentTop == Slice(current, n)
        desiredTop == Slice(desired, n)
        common == IF Len(currentTop) < Len(desiredTop) THEN Len(currentTop)
                  ELSE Len(desiredTop)
    IN PositionsMatch(currentTop, SubSeq(desiredTop, 1, common), 1)

isRepoOrderCorrect(current, desired, n) ==
    LET currentTop == Slice(current, n)
        desiredTop == Slice(desired, n)
    IN IF Len(currentTop) < Len(desiredTop) THEN FALSE
       ELSE PositionsMatch(currentTop, desiredTop, 1)

\* repositories of the platform, most recently updated first
RECURSIVE SortUpdated(_)
SortUpdated(S) ==
    IF S = {} THEN <<>>
    ELSE LET r == CHOOSE x \in S : \A y \in S : repos[y].updated_at <= repos[x].updated_at
         IN <<r>> \o SortUpdated(S \ {r})

InList(x, list) == \E k \in 1..Len(list) : list[k] = x

RECURSIVE FilterNames(_, _)
FilterNames(sorted, names) ==
    IF Len(sorted) = 0 THEN <<>>
    ELSE IF InList(FullName(Head(sorted)), names)
         THEN <<FullName(Head(sorted))>> \o FilterNames(Tail(sorted), names)
         ELSE FilterNames(Tail(sorted), names)

\* repos.listForUser({sort: 'updated', direction: 'desc'}) filtered to the
\* stored names
ListForUser(names) == FilterNames(SortUpdated(Remote), names)

\* mutation: the loop walks the desired order first to last
LoopIndicesAscending(n) == [k \in 1..n |-> k - 1]

\* values of i in: for (let i = reposToSync.length - 1; i >= 0; i--)
LoopIndices(n) == [k \in 1..n |-> n - k]

\* mutation: the synthetic commit is made on an empty tree
BumpCommitEmptyTree(objects, message, tree, parents) ==
    [tree |-> 0, message |-> message, parents |-> parents,
     author |-> Person("app", FreshDate(objects)),
     committer |-> Person("app", FreshDate(objects))]

\* git.createCommit({message, tree, parents}): author and committer are
\* the authenticated app, dated now
BumpCommit(objects, message, tree, parents) ==
    [tree |-> tree, message |-> message, parents |-> parents,
     author |-> Person("app", FreshDate(objects)),
     committer |-> Person("app", FreshDate(objects))]

\* a non-forced updateRef is accepted only as a fast-forward
FastForward(objects, old, new) == old \in Reachable(objects, new)

PositionMessage(position) == MarkerMessage(position)
RevertMessage == MarkerMessage(0)
SyncPositionMessage(position) == MarkerMessage(0 - position)

Target == <<loc.owner, loc.repo>>

Result(repo, status, error, cleaned) ==
    [repo |-> repo, status |-> status, error |-> error, cleaned |-> cleaned]

CountStatus(rs, status) == Cardinality({k \in 1..Len(rs) : rs[k].status = status})

NotInRun == UNCHANGED <<setVars, reqVars, ordVars, rlVars>>
CleanupIdle == UNCHANGED <<cpc, crepo, cl, cresult, preHead>>

(***************************************************************************)
(* POST /api/sync/[secret]: from the parsing of the stored order on.       *)
(***************************************************************************)
ToSync == Slice(reposOrder, IF topN = 0 THEN Len(reposOrder) ELSE topN)

RunNoRepos ==
    /\ pc = "start"
    /\ Len(ToSync) = 0
    /\ reposToSync' = ToSync
    /\ response' = [NoResponse EXCEPT !.status = 200, !.message = "No repos to sync"]
    /\ pc' = "end"
    /\ UNCHANGED <<repos, currentOrder, isOrdered, it, loc, results, syncLog>>
    /\ UNCHANGED histVars
    /\ CleanupIdle /\ NotInRun

\* mutation: the order verification never short-circuits the run
RunVerifyNoSkip ==
    /\ pc = "start"
    /\ Len(ToSync) > 0
    /\ reposToSync' = ToSync
    /\ \E cur \in {ListForUser(reposOrder), <<>>} :
          /\ currentOrder' = cur
          /\ isOrdered' = isRepoOrderCorrect(cur, ToSync, topN)
    /\ pc' = "loop"
    /\ it' = 1
    /\ Issue("listForUser")
    /\ UNCHANGED <<repos, loc, results, syncLog, response, visits, bump>>
    /\ CleanupIdle /\ NotInRun

RunVerify ==
    /\ pc = "start"
    /\ Len(ToSync) > 0
    /\ reposToSync' = ToSync
    /\ \E cur \in {ListForUser(reposOrder), <<>>} :
          /\ currentOrder' = cur
          /\ isOrdered' = isRepoOrderCorrect(cur, ToSync, topN)
    /\ pc' = IF isOrdered' THEN "skip" ELSE "loop"
    /\ it' = 1
    /\ Issue("listForUser")
    /\ UNCHANGED <<repos, loc, results, syncLog, response, visits, bump>>
    /\ CleanupIdle /\ NotInRun

RunSkip ==
    /\ pc = "skip"
    /\ syncLog' = Append(syncLog, [action |-> "auto_sync_skipped", status |-> "success",
                                   successful |-> Null, failed |-> Null])
    /\ response' = [NoResponse EXCEPT !.status = 200, !.skipped = TRUE,
                        !.message = "Repositories already in correct order. No sync needed."]
    /\ pc' = "end"
    /\ UNCHANGED <<repos, reposToSync, currentOrder, isOrdered, it, loc, results>>
    /\ UNCHANGED histVars
    /\ CleanupIdle /\ NotInRun

LoopI == LoopIndices(Len(reposToSync))[it]

\* mutation: the branch reference is read before the name is validated
RunInvalidNameAfterGetRef ==
    /\ pc = "loop"
    /\ it <= Len(reposToSync)
    /\ LET full == reposToSync[LoopI + 1]
       IN /\ ~isValidName(SplitOwner(full)) \/ ~isValidName(SplitRepo(full))
          /\ results' = Append(results,
                 Result(full, "error", "Invalid repository name format", FALSE))
          /\ loc' = [NoLoc EXCEPT !.position = LoopI + 1]
          /\ visits' = [visits EXCEPT ![LoopI + 1] = @ + 1]
          /\ lastCallPos' = LoopI + 1
    /\ it' = it + 1
    /\ issued' = issued \cup {"getRef"}
    /\ UNCHANGED <<repos, pc, reposToSync, currentOrder, isOrdered, syncLog, response>>
    /\ UNCHANGED bump
    /\ CleanupIdle /\ NotInRun

RunInvalidName ==
    /\ pc = "loop"
    /\ it <= Len(reposToSync)
    /\ LET full == reposToSync[LoopI + 1]
       IN /\ ~isValidName(SplitOwner(full)) \/ ~isValidName(SplitRepo(full))
          /\ results' = Append(results,
                 Result(full, "error", "Invalid repository name format", FALSE))
          /\ loc' = [NoLoc EXCEPT !.position = LoopI + 1]
          /\ visits' = [visits EXCEPT ![LoopI + 1] = @ + 1]
    /\ it' = it + 1
    /\ UNCHANGED <<repos, pc, reposToSync, currentOrder, isOrdered, syncLog, response>>
    /\ UNCHANGED <<issued, lastCallPos, bump>>
    /\ CleanupIdle /\ NotInRun

RunLoopEnter ==
    /\ pc = "loop"
    /\ it <= Len(reposToSync)
    /\ LET full == reposToSync[LoopI + 1]
       IN /\ isValidName(SplitOwner(full)) /\ isValidName(SplitRepo(full))
          /\ loc' = [NoLoc EXCEPT !.position = LoopI + 1,
                                  !.owner = SplitOwner(full),
                                  !.repo = SplitRepo(full)]
          /\ visits' = [visits EXCEPT ![LoopI + 1] = @ + 1]
    /\ pc' = "getRefMain"
    /\ UNCHANGED <<repos, reposToSync, currentOrder, isOrdered, it, results, syncLog, response>>
    /\ UNCHANGED <<issued, lastCallPos, bump>>
    /\ CleanupIdle /\ NotInRun

InBump ==
    /\ UNCHANGED <<reposToSync, currentOrder, isOrdered, it, results, syncLog, response>>
    /\ UNCHANGED <<visits, bump>>
    /\ CleanupIdle /\ NotInRun

RunGetRefMain ==
    /\ pc = "getRefMain"
    /\ Target \in Remote
    /\ repos[Target].refs["main"] # Null
    /\ loc' = [loc EXCEPT !.defaultBranch = "main", !.sha = repos[Target].refs["main"]]
    /\ pc' = "getCommit"
    /\ Issue("getRef")
    /\ UNCHANGED repos
    /\ InBump

\* getRef('heads/main') throws: the handler falls back to heads/master
RunGetRefMainFails ==
    /\ pc = "getRefMain"
    /\ pc' = "getRefMaster"
    /\ Issue("getRef")
    /\ UNCHANGED <<repos, loc>>
    /\ InBump

RunGetRefMaster ==
    /\ pc = "getRefMaster"
    /\ Target \in Remote
    /\ repos[Target].refs["master"] # Null
    /\ loc' = [loc EXCEPT !.defaultBranch = "master", !.sha = repos[Target].refs["master"]]
    /\ pc' = "getCommit"
    /\ Issue("getRef")
    /\ UNCHANGED repos
    /\ InBump

RunGetCommit ==
    /\ pc = "getCommit"
    /\ loc' = [loc EXCEPT !.tree = repos[Target].objects[loc.sha].tree]
    /\ pc' = IF commitStrategy = "revert" THEN "createCommit1" ELSE "createTempRef"
    /\ Issue("getCommit")
    /\ UNCHANGED repos
    /\ InBump

\* ---- strategy 'revert' ----
RunCreateCommit1 ==
    /\ pc = "createCommit1"
    /\ LET objects == repos[Target].objects
           rec == BumpCommit(objects, PositionMessage(loc.position), loc.tree, <<loc.sha>>)
       IN /\ repos' = [repos EXCEPT ![Target].objects = PutObject(@, rec)]
          /\ loc' = [loc EXCEPT !.newCommit = ShaOf(objects, rec)]
    /\ pc' = "updateRef1"
    /\ Issue("createCommit")
    /\ InBump

RunUpdateRef1 ==
    /\ pc = "updateRef1"
    /\ FastForward(repos[Target].objects, repos[Target].refs[loc.defaultBranch], loc.newCommit)
    /\ repos' = SetRef(Target, loc.defaultBranch, loc.newCommit)
    /\ pc' = "createCommit2"
    /\ Issue("updateRef")
    /\ UNCHANGED loc
    /\ InBump

RunCreateCommit2 ==
    /\ pc = "createCommit2"
    /\ LET objects == repos[Target].objects
           rec == BumpCommit(objects, RevertMessage, loc.tree, <<loc.newCommit>>)
       IN /\ repos' = [repos EXCEPT ![Target].objects = PutObject(@, rec)]
          /\ loc' = [loc EXCEPT !.revertCommit = ShaOf(objects, rec)]
    /\ pc' = "updateRef2"
    /\ Issue("createCommit")
    /\ InBump

\* the bump is complete: after the pause the handler calls the cleanup
StartCleanup ==
    /\ pc' = "cleanup"
    /\ cpc' = "reposGet"
    /\ crepo' = Target
    /\ cl' = NoLocals
    /\ cresult' = NoResult
    /\ preHead' = repos'[Target].refs[repos'[Target].default_branch]
    /\ bump' = [bump EXCEPT ![loc.position] = "ok"]
    /\ UNCHANGED <<reposToSync, currentOrder, isOrdered, it, results, syncLog, response>>
    /\ UNCHANGED visits
    /\ NotInRun

RunUpdateRef2 ==
    /\ pc = "updateRef2"
    /\ FastForward(repos[Target].objects, repos[Target].refs[loc.defaultBranch], loc.revertCommit)
    /\ repos' = SetRef(Target, loc.defaultBranch, loc.revertCommit)
    /\ Issue("updateRef")
    /\ UNCHANGED loc
    /\ StartCleanup

\* ---- strategy 'branch' ----
RunCreateTempRef ==
    /\ pc = "createTempRef"
    /\ repos' = SetRef(Target, "temp", loc.sha)
    /\ pc' = "createCommitB"
    /\ Issue("createRef")
    /\ UNCHANGED loc
    /\ InBump

RunCreateCommitB ==
    /\ pc = "createCommitB"
    /\ LET objects == repos[Target].objects
           rec == BumpCommit(objects, SyncPositionMessage(loc.position), loc.tree, <<loc.sha>>)
       IN /\ repos' = [repos EXCEPT ![Target].objects = PutObject(@, rec)]
          /\ loc' = [loc EXCEPT !.newCommit = ShaOf(objects, rec)]
    /\ pc' = "updateTempRef"
    /\ Issue("createCommit")
    /\ InBump

RunUpdateTempRef ==
    /\ pc = "updateTempRef"
    /\ FastForward(repos[Target].objects, repos[Target].refs["temp"], loc.newCommit)
    /\ repos' = SetRef(Target, "temp", loc.newCommit)
    /\ pc' = "merge"
    /\ Issue("updateRef")
    /\ UNCHANGED loc
    /\ InBump

\* mutation: the merge squashes, the new commit has the base head as its
\* only parent
RunMergeSquash ==
    /\ pc = "merge"
    /\ LET objects == repos[Target].objects
           base == repos[Target].refs[loc.defaultBranch]
           rec == BumpCommit(objects, PositionMessage(loc.position),
                             objects[base].tree, <<base>>)
       IN repos' = [SetRef(Target, loc.defaultBranch, ShaOf(objects, rec))
                       EXCEPT ![Target].objects = PutObject(@, rec)]
    /\ pc' = "deleteTempRef"
    /\ Issue("merge")
    /\ UNCHANGED loc
    /\ InBump

\* repos.merge({base, head, commit_message}): a merge commit whose parents
\* are the heads of base and head; the trees of both are the same
RunMerge ==
    /\ pc = "merge"
    /\ LET objects == repos[Target].objects
           base == repos[Target].refs[loc.defaultBranch]
           head == repos[Target].refs["temp"]
           rec == BumpCommit(objects, PositionMessage(loc.position),
                             objects[base].tree, <<base, head>>)
       IN repos' = [SetRef(Target, loc.defaultBranch, ShaOf(objects, rec))
                       EXCEPT ![Target].objects = PutObject(@, rec)]
    /\ pc' = "deleteTempRef"
    /\ Issue("merge")
    /\ UNCHANGED loc
    /\ InBump

RunDeleteTempRef ==
    /\ pc = "deleteTempRef"
    /\ repos' = SetRef(Target, "temp", Null)
    /\ Issue("deleteRef")
    /\ UNCHANGED loc
    /\ StartCleanup

BumpPcs == {"getRefMaster", "getCommit", "createCommit1", "updateRef1",
            "createCommit2", "updateRef2", "createTempRef", "createCommitB",
            "updateTempRef", "merge", "deleteTempRef"}

BumpOp ==
    CASE pc = "getRefMaster" -> "getRef"
      [] pc = "getCommit" -> "getCommit"
      [] pc \in {"createCommit1", "createCommit2", "createCommitB"} -> "createCommit"
      [] pc \in {"updateRef1", "updateRef2", "updateTempRef"} -> "updateRef"
      [] pc = "createTempRef" -> "createRef"
      [] pc = "merge" -> "merge"
      [] pc = "deleteTempRef" -> "deleteRef"

\* mutation: a failed repository ends the loop
RunBumpThrowsAborts ==
    /\ pc \in BumpPcs
    /\ results' = Append(results,
           Result(reposToSync[loc.position], "error", "Operation failed", FALSE))
    /\ bump' = [bump EXCEPT ![loc.position] = "threw"]
    /\ it' = Len(reposToSync) + 1
    /\ pc' = "loop"
    /\ Issue(BumpOp)
    /\ UNCHANGED <<repos, reposToSync, currentOrder, isOrdered, loc, syncLog, response>>
    /\ UNCHANGED visits
    /\ CleanupIdle /\ NotInRun

\* a remote call of the bump throws: catch (error) of the loop body
RunBumpThrows ==
    /\ pc \in BumpPcs
    /\ results' = Append(results,
           Result(reposToSync[loc.position], "error", "Operation failed", FALSE))
    /\ bump' = [bump EXCEPT ![loc.position] = "threw"]
    /\ it' = it + 1
    /\ pc' = "loop"
    /\ Issue(BumpOp)
    /\ UNCHANGED <<repos, reposToSync, currentOrder, isOrdered, loc, syncLog, response>>
    /\ UNCHANGED visits
    /\ CleanupIdle /\ NotInRun

\* mutation: a cleanup that did not succeed makes the repository an error
RunCleanupReturnsDemotes ==
    /\ pc = "cleanup"
    /\ cpc = "done"
    /\ results' = Append(results,
           IF cresult.status = "success"
           THEN Result(reposToSync[loc.position], "success", "", TRUE)
           ELSE Result(reposToSync[loc.position], "error", "Operation failed", FALSE))
    /\ it' = it + 1
    /\ pc' = "loop"
    /\ cpc' = "idle"
    /\ UNCHANGED <<repos, reposToSync, currentOrder, isOrdered, loc, syncLog, response>>
    /\ UNCHANGED <<crepo, cl, cresult, preHead>>
    /\ UNCHANGED histVars
    /\ NotInRun

\* the import of the cleanup helper throws before the helper runs:
\* catch (cleanupError), the result is pushed with cleaned = false
RunCleanupThrows ==
    /\ pc = "cleanup"
    /\ cpc = "reposGet"
    /\ results' = Append(results, Result(reposToSync[loc.position], "success", "", FALSE))
    /\ it' = it + 1
    /\ pc' = "loop"
    /\ cpc' = "idle"
    /\ UNCHANGED <<repos, reposToSync, currentOrder, isOrdered, loc, syncLog, response>>
    /\ UNCHANGED <<crepo, cl, cresult, preHead>>
    /\ UNCHANGED histVars
    /\ NotInRun

\* cleanupRepoCommitsAutomatic returned
RunCleanupReturns ==
    /\ pc = "cleanup"
    /\ cpc = "done"
    /\ results' = Append(results,
           Result(reposToSync[loc.position], "success", "", cresult.status = "success"))
    /\ it' = it + 1
    /\ pc' = "loop"
    /\ cpc' = "idle"
    /\ UNCHANGED <<repos, reposToSync, currentOrder, isOrdered, loc, syncLog, response>>
    /\ UNCHANGED <<crepo, cl, cresult, preHead>>
    /\ UNCHANGED histVars
    /\ NotInRun

\* mutation: the audit status is 'success' as soon as one repository succeeded
RunSummaryAnySuccess ==
    /\ pc = "loop"
    /\ it > Len(reposToSync)
    /\ syncLog' = Append(syncLog,
           [action |-> "auto_sync",
            status |-> IF \E k \in 1..Len(results) : results[k].status = "success"
                       THEN "success" ELSE "partial",
            successful |-> CountStatus(results, "success"),
            failed |-> CountStatus(results, "error")])
    /\ response' = [NoResponse EXCEPT !.status = 200,
                                      !.synced = CountStatus(results, "success"),
                                      !.failed = CountStatus(results, "error")]
    /\ pc' = "end"
    /\ UNCHANGED <<repos, reposToSync, currentOrder, isOrdered, it, loc, results>>
    /\ UNCHANGED histVars
    /\ CleanupIdle /\ NotInRun

RunSummary ==
    /\ pc = "loop"
    /\ it > Len(reposToSync)
    /\ syncLog' = Append(syncLog,
           [action |-> "auto_sync",
            status |-> IF \A k \in 1..Len(results) : results[k].status = "success"
                       THEN "success" ELSE "partial",
            successful |-> CountStatus(results, "success"),
            failed |-> CountStatus(results, "error")])
    /\ response' = [NoResponse EXCEPT !.status = 200,
                                      !.synced = CountStatus(results, "success"),
                                      !.failed = CountStatus(results, "error")]
    /\ pc' = "end"
    /\ UNCHANGED <<repos, reposToSync, currentOrder, isOrdered, it, loc, results>>
    /\ UNCHANGED histVars
    /\ CleanupIdle /\ NotInRun

\* stored orders: distinct names
Orders == {o \in UNION {[1..n -> RepoNames] : n \in 0..MaxRepos} :
              \A a, b \in 1..Len(o) : a # b => o[a] # o[b]}

Init ==
    /\ reposOrder \in Orders
    /\ topN \in 0..MaxRepos
    /\ commitStrategy \in {"revert", "branch"}
    /\ account = DefaultAccount
    /\ secret = SecretKnown
    /\ other = NoOther
    /\ \E ka \in KindSeqs(MaxRunHist), sa, sb \in 1..2 :
          /\ sa # sb
          /\ ~InList(FullName(RepoA), reposOrder) => ka = <<"real">>
          /\ repos = [r \in Remote |->
                         IF r = RepoA THEN RepoWith(ka, DefaultBranchOf(r), sa)
                         ELSE DefaultRepo(r, sb)]
    /\ pc = "start"
    /\ reposToSync = <<>>
    /\ currentOrder = <<>>
    /\ isOrdered = FALSE
    /\ it = 0
    /\ loc = NoLoc
    /\ results = <<>>
    /\ syncLog = <<>>
    /\ response = NoResponse
    /\ IdleCleanup
    /\ issued = {}
    /\ lastCallPos = 0
    /\ visits = [p \in 1..Len(reposOrder) |-> 0]
    /\ bump = [p \in 1..Len(reposOrder) |-> ""]
    /\ IdleOrder /\ IdleRateLimit

Next ==
    \/ RunNoRepos
    \/ RunVerify
    \/ RunSkip
    \/ RunInvalidName
    \/ RunLoopEnter
    \/ RunGetRefMain
    \/ RunGetRefMainFails
    \/ RunGetRefMaster
    \/ RunGetCommit
    \/ RunCreateCommit1
    \/ RunUpdateRef1
    \/ RunCreateCommit2
    \/ RunUpdateRef2
    \/ RunCreateTempRef
    \/ RunCreateCommitB
    \/ RunUpdateTempRef
    \/ RunMerge
    \/ RunDeleteTempRef
    \/ RunBumpThrows
    \/ RunCleanupReturns
    \/ RunCleanupThrows
    \/ RunSummary
    \/ CleanupStep

Spec == Init /\ [][Next]_vars

(***************************************************************************)
(* Properties of a sync run.                                               *)
(***************************************************************************)
RevertPcs == {"createCommit1", "updateRef1", "createCommit2", "updateRef2"}

\* the bump of the current position threw and the loop has not moved on
BumpFailedNow == pc = "loop" /\ loc.position # 0 /\ bump[loc.position] = "threw"

\* the bump of the current position is complete and cleanup has not started
BumpedNow == pc = "cleanup" /\ cpc = "reposGet"

BumpedHead == repos[Target].refs[loc.defaultBranch]

\* C5: with the revert strategy the tree of the branch HEAD equals the tree
\* read at the start after every step of the bump, also when a step threw;
\* the complete bump appends two marked commits, the first on the old HEAD
\* and the second on the first.
C5ContentPreserved ==
    (commitStrategy = "revert" /\ loc.tree # Null) =>
        LET objects == repos[Target].objects
        IN /\ (pc \in RevertPcs \/ BumpFailedNow \/ BumpedNow) =>
                  objects[BumpedHead].tree = loc.tree
           /\ BumpedNow =>
                  /\ BumpedHead = loc.revertCommit
                  /\ objects[loc.revertCommit].parents = <<loc.newCommit>>
                  /\ objects[loc.newCommit].parents = <<loc.sha>>
                  /\ IsGitPins(objects[loc.revertCommit].message)
                  /\ IsGitPins(objects[loc.newCommit].message)
                  /\ loc.newCommit # loc.revertCommit
                  /\ {loc.newCommit, loc.revertCommit} \cap Reachable(objects, loc.sha) = {}
                  /\ Reachable(objects, BumpedHead) =
                         Reachable(objects, loc.sha) \cup {loc.newCommit, loc.revertCommit}

\* a revert bump has just completed on a history of two commits
C5Witness ==
    /\ commitStrategy = "revert"
    /\ BumpedNow
    /\ Cardinality(Reachable(repos[Target].objects, loc.sha)) = 2
    /\ Cardinality(Reachable(repos[Target].objects, BumpedHead)) = 4

\* the run went through the loop and answered with the counts
Summarized == pc = "end" /\ ~response.skipped /\ Len(reposToSync) > 0

NameIsValid(full) == isValidName(SplitOwner(full)) /\ isValidName(SplitRepo(full))

\* C6: a run that went through the loop processed every repository once,
\* has one result per repository, its 'error' results are those of the
\* repositories whose bump threw or whose name is invalid, and
\* synced + failed is the number of repositories.
C6PartialFailure ==
    Summarized =>
        /\ Len(results) = Len(reposToSync)
        /\ \A p \in 1..Len(reposToSync) :
              /\ visits[p] = 1
              /\ Cardinality({k \in 1..Len(results) : results[k].repo = reposToSync[p]}) = 1
              /\ \A k \in 1..Len(results) :
                    results[k].repo = reposToSync[p] =>
                        /\ results[k].status \in {"success", "error"}
                        /\ results[k].status = "error" <=>
                               (bump[p] = "threw" \/ ~NameIsValid(reposToSync[p]))
        /\ response.synced + response.failed = Len(reposToSync)

\* one of two repositories failed, the other one succeeded
C6Witness ==
    /\ Summarized
    /\ Len(results) = 2
    /\ results[1].status = "success"
    /\ results[2].status = "error"
    /\ bump[1] = "threw"
    /\ response.synced = 1 /\ response.failed = 1

MutatingOps == {"createCommit", "updateRef", "createRef", "merge", "deleteRef"}

C9ReverseOrder ==
    [][(lastCallPos # 0 /\ lastCallPos' # lastCallPos) => lastCallPos' < lastCallPos]_vars

\* the first desired repository is being bumped after the second one was
C9Witness ==
    /\ lastCallPos = 1
    /\ pc = "updateRef2"
    /\ Len(reposToSync) = 2
    /\ bump[2] = "ok"

\* loop position of the k-th result
PosOf(k) == Len(reposToSync) + 1 - k

BumpedOk == {p \in 1..Len(reposToSync) : bump[p] = "ok"}

\* the loop body of loc.position has ended after a complete bump
CleanupJustEnded ==
    /\ pc \in {"loop", "end"}
    /\ loc.position # 0
    /\ bump[loc.position] = "ok"

\* C14: the result of a repository whose bump completed is 'success'
\* whether the cleanup succeeded, returned an error or threw, with
\* cleaned = false in the two latter cases; the status of the run and the
\* synced and failed counts are fixed by the bumps alone.
C14CleanupNoDemotion ==
    /\ \A k \in 1..Len(results) :
          bump[PosOf(k)] = "ok" =>
              /\ results[k].repo = reposToSync[PosOf(k)]
              /\ results[k].status = "success"
    /\ CleanupJustEnded =>
          /\ results[Len(results)].repo = reposToSync[loc.position]
          /\ results[Len(results)].cleaned <=> cresult.status = "success"
    /\ Summarized =>
          /\ syncLog[Len(syncLog)].status =
                 (IF BumpedOk = 1..Len(reposToSync) THEN "success" ELSE "partial")
          /\ response.synced = Cardinality(BumpedOk)
          /\ response.failed = Len(reposToSync) - Cardinality(BumpedOk)

\* two repositories were bumped, neither cleanup succeeded, the latest one
\* returned an error, and the run is a success with two synced
C14Witness ==
    /\ Summarized
    /\ Len(results) = 2
    /\ results[1].status = "success" /\ ~results[1].cleaned
    /\ results[2].status = "success" /\ ~results[2].cleaned
    /\ cresult.status = "error"
    /\ syncLog[1].status = "success"
    /\ response.synced = 2 /\ response.failed = 0

AutoSyncRecords == {k \in 1..Len(syncLog) : syncLog[k].action = "auto_sync"}

C16ValidationFirst ==
    /\ lastCallPos # 0 => NameIsValid(reposToSync[lastCallPos])
    /\ \A p \in 1..Len(reposToSync) :
          (visits[p] >= 1 /\ ~NameIsValid(reposToSync[p])) =>
              /\ visits[p] = 1
              /\ bump[p] = ""
              /\ \E k \in 1..Len(results) :
                    results[k] = Result(reposToSync[p], "error",
                                        "Invalid repository name format", FALSE)
    /\ Summarized => \A p \in 1..Len(reposToSync) : visits[p] = 1

\* the second entry was refused without a call and the first one is being
\* bumped
C16Witness ==
    /\ Len(reposToSync) = 2
    /\ ~NameIsValid(reposToSync[2])
    /\ results = <<Result(reposToSync[2], "error", "Invalid repository name format", FALSE)>>
    /\ lastCallPos = 1
    /\ pc = "createCommit1"
    /\ "getCommit" \in issued

\* commits reachable from some reference of the repository being bumped
ReachableFromRefs ==
    UNION {Reachable(repos[Target].objects, repos[Target].refs[r]) : r \in RefNames}

BranchBumped == commitStrategy = "branch" /\ BumpedNow

\* C18 as stated: after a complete branch-merge bump the temporary reference
\* is gone, one commit, the merge commit, has been added to the default
\* branch, and the commit made on the temporary branch is reachable from no
\* remaining reference.
C18TempCommitUnreachable ==
    BranchBumped =>
        LET objects == repos[Target].objects
        IN /\ repos[Target].refs["temp"] = Null
           /\ Reachable(objects, BumpedHead) = Reachable(objects, loc.sha) \cup {BumpedHead}
           /\ loc.newCommit \notin ReachableFromRefs

\* C18 amended: the temporary reference is gone and the default branch
\* HEAD is one new merge commit on the old HEAD, with the tree of the old
\* HEAD; its second parent is the commit made on the temporary branch,
\* which therefore stays reachable from the default branch: two marked
\* commits have been added to its history.
C18BranchMergeEffect ==
    BranchBumped =>
        LET objects == repos[Target].objects
        IN /\ repos[Target].refs["temp"] = Null
           /\ objects[BumpedHead].parents = <<loc.sha, loc.newCommit>>
           /\ objects[loc.newCommit].parents = <<loc.sha>>
           /\ objects[BumpedHead].tree = loc.tree
           /\ IsGitPins(objects[BumpedHead].message)
           /\ IsGitPins(objects[loc.newCommit].message)
           /\ BumpedHead \notin Reachable(objects, loc.sha)
           /\ loc.newCommit \notin Reachable(objects, loc.sha)
           /\ BumpedHead # loc.newCommit
           /\ Reachable(objects, BumpedHead) =
                  Reachable(objects, loc.sha) \cup {loc.newCommit, BumpedHead}

\* a branch-merge bump has just completed on a history of two commits
C18Witness ==
    /\ BranchBumped
    /\ repos[Target].refs["temp"] = Null
    /\ "deleteRef" \in issued
    /\ Cardinality(Reachable(repos[Target].objects, loc.sha)) = 2
    /\ Cardinality(Reachable(repos[Target].objects, BumpedHead)) = 4
    /\ Len(repos[Target].objects[BumpedHead].parents) = 2

\* C25: when the branch-merge bump of a repository has ended, completed or
\* failed at any of its calls, the repository has no temporary branch
\* reference left by that bump.
C25NoTempBranchLeft ==
    (commitStrategy = "branch" /\ (BumpedNow \/ BumpFailedNow)) =>
        repos[Target].refs["temp"] = Null

\* the run went through the loop and every result is 'success'
AllSucceeded ==
    /\ Summarized
    /\ \A k \in 1..Len(results) : results[k].status = "success"

C27SkipSound ==
    response.skipped =>
        Slice(currentOrder, Len(reposToSync)) = reposToSync

\* the same, for a stored topN of at least one
C27SkipSoundPositiveTopN ==
    (response.skipped /\ topN >= 1) =>
        Slice(currentOrder, Len(reposToSync)) = reposToSync

\* every entry of the stored order passes the validation of the
\* settings-save operation
SavedOrderAccepted ==
    \A k \in 1..Len(reposOrder) : isValidRepoFullName(reposOrder[k])

\* C28: every entry the settings-save operation accepts passes the
\* validator of the sync run for both segments, so no repository of a saved
\* order gets the result 'Invalid repository name format'.
C28SavedNamesPassSync ==
    SavedOrderAccepted =>
        \A k \in 1..Len(results) :
            /\ NameIsValid(results[k].repo)
            /\ results[k].error # "Invalid repository name format"

(***************************************************************************)
(* A sync run on a repository that has both a main and a master branch.    *)
(***************************************************************************)
\* main holds the history, master was left at its first commit; the
\* default branch of the repository is master
TwoBranchRepo(kinds, stamp) ==
    [RepoWith(kinds, "main", stamp) EXCEPT !.refs["master"] = 1,
                                           !.default_branch = "master"]

InitBranches ==
    /\ reposOrder \in Orders
    /\ topN \in 0..MaxRepos
    /\ commitStrategy \in {"revert", "branch"}
    /\ account = DefaultAccount
    /\ secret = SecretKnown
    /\ other = NoOther
    /\ \E ka \in KindSeqs(MaxRunHist), sa, sb \in 1..2 :
          /\ sa # sb
          /\ ~InList(FullName(RepoA), reposOrder) => ka = <<"real">>
          /\ repos = [r \in Remote |->
                         IF r = RepoA THEN TwoBranchRepo(ka, sa)
                         ELSE DefaultRepo(r, sb)]
    /\ pc = "start"
    /\ reposToSync = <<>>
    /\ currentOrder = <<>>
    /\ isOrdered = FALSE
    /\ it = 0
    /\ loc = NoLoc
    /\ results = <<>>
    /\ syncLog = <<>>
    /\ response = NoResponse
    /\ IdleCleanup
    /\ issued = {}
    /\ lastCallPos = 0
    /\ visits = [p \in 1..Len(reposOrder) |-> 0]
    /\ bump = [p \in 1..Len(reposOrder) |-> ""]
    /\ IdleOrder /\ IdleRateLimit

SpecBranches == InitBranches /\ [][Next]_vars

\* the latest result is {status: 'success', cleaned: true}
CleanedNow ==
    /\ CleanupJustEnded
    /\ results[Len(results)].status = "success"
    /\ results[Len(results)].cleaned

\* the first page of the log of the branch the bump advanced
BumpedWindow == ListCommits(repos[Target].objects, BumpedHead, PerPage)

\* C23: when the result of a repository is 'success' with cleaned = true,
\* no commit of the first page of the log of the branch the bump advanced
\* carries the marker, also when that branch is not the default branch.
C23CleanedMeansClean ==
    CleanedNow =>
        \A k \in 1..Len(BumpedWindow) :
            ~IsGitPins(repos[Target].objects[BumpedWindow[k]].message)

\* the same, for a bump that advanced the default branch of the repository
C23CleanedDefaultBranch ==
    (CleanedNow /\ loc.defaultBranch = repos[Target].default_branch) =>
        \A k \in 1..Len(BumpedWindow) :
            ~IsGitPins(repos[Target].objects[BumpedWindow[k]].message)

(***************************************************************************)
(* Two sync runs for the same credential at the same time: the scheduled   *)
(* workflow and "Sync now" of the dashboard.  Both handlers run the same   *)
(* code on the same repositories; their remote calls interleave.  The      *)
(* variables of the handler hold the request whose call comes next, other  *)
(* holds the request that is waiting.                                      *)
(***************************************************************************)
\* the variables of a handler, as a record
Handler ==
    [pc |-> pc, reposToSync |-> reposToSync, currentOrder |-> currentOrder,
     isOrdered |-> isOrdered, it |-> it, loc |-> loc, results |-> results,
     syncLog |-> syncLog, response |-> response, cpc |-> cpc, crepo |-> crepo,
     cl |-> cl, cresult |-> cresult, preHead |-> preHead, issued |-> issued,
     lastCallPos |-> lastCallPos, visits |-> visits, bump |-> bump]

\* the timestamped reference names of a request are its own: seen from the
\* other request, "temp" and "backup" are "temp2" and "backup2"
SwapRefs(refs) ==
    [refs EXCEPT !["temp"] = refs["temp2"], !["temp2"] = refs["temp"],
                 !["backup"] = refs["backup2"], !["backup2"] = refs["backup"]]

\* the next remote call is made by the other request
Switch ==
    /\ other.pc \notin {"none", "end"}
    /\ other' = Handler
    /\ pc' = other.pc
    /\ reposToSync' = other.reposToSync
    /\ currentOrder' = other.currentOrder
    /\ isOrdered' = other.isOrdered
    /\ it' = other.it
    /\ loc' = other.loc
    /\ results' = other.results
    /\ syncLog' = other.syncLog
    /\ response' = other.response
    /\ cpc' = other.cpc
    /\ crepo' = other.crepo
    /\ cl' = other.cl
    /\ cresult' = other.cresult
    /\ preHead' = other.preHead
    /\ issued' = other.issued
    /\ lastCallPos' = other.lastCallPos
    /\ visits' = other.visits
    /\ bump' = other.bump
    /\ repos' = [r \in Remote |-> [repos[r] EXCEPT !.refs = SwapRefs(@)]]
    /\ UNCHANGED <<setVars, secret, ordVars, rlVars>>

\* the stored order pins one repository; a second managed repository was
\* updated more recently or less recently than it
TwoOrders == {<<>>, <<NameA, NameB>>, <<NameBad, NameB>>}

\* histories of the pinned repository: MaxTwoHist commits, the first and
\* the last one real
TwoHistories ==
    {ka \in [1..MaxTwoHist -> Kinds] : ka[1] = "real" /\ ka[MaxTwoHist] = "real"}
AllReal == [k \in 1..MaxTwoHist |-> "real"]

InitTwo ==
    /\ reposOrder \in TwoOrders
    /\ topN = 1
    /\ commitStrategy \in {"revert", "branch"}
    /\ account = DefaultAccount
    /\ secret = SecretKnown
    /\ \E ka \in TwoHistories, sa, sb \in 1..2, branch \in {"main", "master"} :
          /\ sa # sb
          /\ reposOrder # <<NameA, NameB>> => (ka = AllReal /\ sa = 1 /\ branch = "main")
          /\ branch = "master" => ka = AllReal
          /\ repos = [r \in Remote |->
                         IF r = RepoA THEN RepoWith(ka, branch, sa)
                         ELSE DefaultRepo(r, sb)]
    /\ pc = "start"
    /\ reposToSync = <<>>
    /\ currentOrder = <<>>
    /\ isOrdered = FALSE
    /\ it = 0
    /\ loc = NoLoc
    /\ results = <<>>
    /\ syncLog = <<>>
    /\ response = NoResponse
    /\ IdleCleanup
    /\ issued = {}
    /\ lastCallPos = 0
    /\ visits = [p \in 1..Len(reposOrder) |-> 0]
    /\ bump = [p \in 1..Len(reposOrder) |-> ""]
    /\ other = Handler
    /\ IdleOrder /\ IdleRateLimit

NextTwo == Next \/ Switch

SpecTwo == InitTwo /\ [][NextTwo]_vars

\* both requests have been answered
BothEnded == pc = "end" /\ other.pc = "end"

\* both requests fetched the current order, went through the loop and have
\* only 'success' results
BothSucceeded ==
    /\ BothEnded
    /\ AllSucceeded
    /\ currentOrder # <<>>
    /\ other.currentOrder # <<>>
    /\ ~other.response.skipped
    /\ Len(other.reposToSync) > 0
    /\ \A k \in 1..Len(other.results) : other.results[k].status = "success"

\* the HEAD of the default branch of the pinned repository
PinnedHead == repos[RepoA].refs[repos[RepoA].default_branch]

\* commits a..b of the pinned repository carry the same content
SamePinned(a, b) ==
    LET objects == repos[RepoA].objects
    IN /\ objects[a].tree = objects[b].tree
       /\ objects[a].message = objects[b].message
       /\ objects[a].author = objects[b].author
       /\ objects[a].committer = objects[b].committer

\* the real commits of the pinned repository: those it had before the runs
\* and their copies, since a run creates marked commits and copies only
RealCommits ==
    {s \in 1..Len(repos[RepoA].objects) : ~IsGitPins(repos[RepoA].objects[s].message)}

\* the tree of the HEAD before the runs: the tree of the newest real commit
\* (trees are numbered in the order of the commits), as marked commits of a
\* bump keep the tree of their parent
InitialTree ==
    IF RealCommits = {} THEN 1
    ELSE MaxOf({repos[RepoA].objects[s].tree : s \in RealCommits})

\* C29: when two runs for the same credential have interleaved their calls
\* on a repository in any order and both have ended, every real commit
\* that was reachable from the default branch before the runs is reachable
\* from it, as itself or as a copy, and the tree of the HEAD is the tree of
\* the HEAD before the runs.  Checked for runs that both succeeded.
C29ConcurrentRuns ==
    BothSucceeded =>
        LET objects == repos[RepoA].objects
        IN /\ \A c \in RealCommits :
                 \E c2 \in Reachable(objects, PinnedHead) : SamePinned(c, c2)
           /\ objects[PinnedHead].tree = InitialTree

(***************************************************************************)
(* isRepoOrderCorrect on its own.                                          *)
(***************************************************************************)
OrderArgs == UNION {[1..n -> {NameA, NameB}] : n \in 0..MaxOrderLen}

InitOrder ==
    /\ \E c, d \in OrderArgs, n \in 0..(MaxOrderLen + 1) :
           ordIn = [currentOrder |-> c, desiredOrder |-> d, topN |-> n]
    /\ ordOut = <<>>
    /\ valIn = <<>>
    /\ valOut = <<>>
    /\ repos = [r \in Remote |-> DefaultRepo(r, IF r = RepoA THEN 2 ELSE 1)]
    /\ IdleCleanup /\ IdleRun /\ IdleSettings /\ IdleHistory /\ IdleRateLimit

OrderCall ==
    /\ ordOut = <<>>
    /\ ordOut' = <<isRepoOrderCorrect(ordIn.currentOrder, ordIn.desiredOrder, ordIn.topN)>>
    /\ UNCHANGED <<envVars, setVars, reqVars, runVars, clnVars, histVars, rlVars, ordIn,
                   valIn, valOut>>

NextOrder == OrderCall

SpecOrder == InitOrder /\ [][NextOrder]_vars

Min(a, b) == IF a < b THEN a ELSE b

\* C8: isRepoOrderCorrect is true exactly when the first topN entries of the
\* current order are at least as many as the first topN of the desired
\* order and agree with them position by position.
C8OrderVerifier ==
    Len(ordOut) = 1 =>
        LET nc == Min(ordIn.topN, Len(ordIn.currentOrder))
            nd == Min(ordIn.topN, Len(ordIn.desiredOrder))
        IN ordOut[1] <=>
              /\ nc >= nd
              /\ \A i \in 1..nd : ordIn.currentOrder[i] = ordIn.desiredOrder[i]

\* a current order of three that starts with the two desired repositories
C8Witness ==
    /\ ordOut = <<TRUE>>
    /\ ordIn.topN = 2
    /\ ordIn.desiredOrder = <<NameA, NameB>>
    /\ ordIn.currentOrder = <<NameA, NameB, NameA>>

(***************************************************************************)
(* isValidName on its own.                                                 *)
(***************************************************************************)
\* characters the enumerated arguments are made of
SegAlphabet == {"a", "Z", "7", ".", "_", "-", "/", " "}

LongName(n) == [k \in 1..n |-> "a"]
DotDotSecret == <<".", ".", "/", "s", "e", "c", "r", "e", "t">>
MyRepoName == <<"m", "y", "-", "r", "e", "p", "o", ".", "n", "a", "m", "e", "_", "1">>

\* every short string over the alphabet, names at and over the length
\* limit, and the names of the tests
SegArgs ==
    UNION {[1..n -> SegAlphabet] : n \in 0..MaxSegLen}
        \cup {LongName(MaxNameLen), LongName(MaxNameLen + 1),
              <<".">> \o LongName(MaxNameLen - 1), DotDotSecret, MyRepoName}

InitName ==
    /\ valIn \in SegArgs
    /\ valOut = <<>>
    /\ ordIn = [currentOrder |-> <<>>, desiredOrder |-> <<>>, topN |-> 0]
    /\ ordOut = <<>>
    /\ repos = [r \in Remote |-> DefaultRepo(r, IF r = RepoA THEN 2 ELSE 1)]
    /\ IdleCleanup /\ IdleRun /\ IdleSettings /\ IdleHistory /\ IdleRateLimit

NameCall ==
    /\ valOut = <<>>
    /\ valOut' = <<isValidName(valIn)>>
    /\ UNCHANGED <<envVars, setVars, reqVars, runVars, clnVars, histVars, rlVars, ordIn,
                   ordOut, valIn>>

NextName == NameCall

SpecName == InitName /\ [][NextName]_vars

\* the segment as the claim describes an accepted one
SegmentAccepted(name) ==
    /\ Len(name) >= 1
    /\ Len(name) <= 100
    /\ \A k \in 1..Len(name) : name[k] \in Lower \cup Upper \cup Digits \cup {".", "_", "-"}
    /\ name[1] # "."
    /\ name # <<".">>
    /\ name # <<".", ".">>

\* C17: the validator of the sync run accepts a segment exactly when it is
\* non-empty, at most 100 characters long, made of [A-Za-z0-9._-] only,
\* does not start with '.', and is neither '.' nor '..'; it refuses
\* '../secret', the empty string and a name of 101 characters and accepts
\* 'my-repo.name_1'.
C17NameValidator ==
    Len(valOut) = 1 =>
        /\ valOut[1] <=> SegmentAccepted(valIn)
        /\ valIn \in {DotDotSecret, <<>>, LongName(101)} => ~valOut[1]
        /\ valIn = MyRepoName => valOut[1]

\* the validator accepted 'my-repo.name_1'
C17Witness ==
    /\ valIn = MyRepoName
    /\ valOut = <<TRUE>>

(***************************************************************************)
(* checkRateLimit                                                          *)
(***************************************************************************)
Identifiers == {KeyOne, KeyTwo}

\* mutation: the limit test lets one request too many through
checkRateLimitOffByOne(store, identifier, config, t) ==
    IF identifier \notin DOMAIN store \/ store[identifier].resetTime < t
    THEN [store |-> (identifier :> [count |-> 1, resetTime |-> t + config.windowMs]) @@ store,
          result |-> [success |-> TRUE, remaining |-> config.maxRequests - 1,
                      resetTime |-> t + config.windowMs]]
    ELSE IF store[identifier].count > config.maxRequests
    THEN [store |-> store,
          result |-> [success |-> FALSE, remaining |-> 0,
                      resetTime |-> store[identifier].resetTime]]
    ELSE [store |-> [store EXCEPT ![identifier].count = @ + 1],
          result |-> [success |-> TRUE,
                      remaining |-> config.maxRequests - (store[identifier].count + 1),
                      resetTime |-> store[identifier].resetTime]]

\* mutation: every admitted call pushes the reset time of the entry back
checkRateLimitExtends(store, identifier, config, t) ==
    IF identifier \notin DOMAIN store \/ store[identifier].resetTime < t
    THEN [store |-> (identifier :> [count |-> 1, resetTime |-> t + config.windowMs]) @@ store,
          result |-> [success |-> TRUE, remaining |-> config.maxRequests - 1,
                      resetTime |-> t + config.windowMs]]
    ELSE IF store[identifier].count >= config.maxRequests
    THEN [store |-> store,
          result |-> [success |-> FALSE, remaining |-> 0,
                      resetTime |-> store[identifier].resetTime]]
    ELSE [store |-> [store EXCEPT ![identifier].count = @ + 1,
                                  ![identifier].resetTime = t + config.windowMs],
          result |-> [success |-> TRUE,
                      remaining |-> config.maxRequests - (store[identifier].count + 1),
                      resetTime |-> t + config.windowMs]]

\* the store after the call and the returned RateLimitResult
checkRateLimit(store, identifier, config, t) ==
    IF identifier \notin DOMAIN store \/ store[identifier].resetTime < t
    THEN [store |-> (identifier :> [count |-> 1, resetTime |-> t + config.windowMs]) @@ store,
          result |-> [success |-> TRUE, remaining |-> config.maxRequests - 1,
                      resetTime |-> t + config.windowMs]]
    ELSE IF store[identifier].count >= config.maxRequests
    THEN [store |-> store,
          result |-> [success |-> FALSE, remaining |-> 0,
                      resetTime |-> store[identifier].resetTime]]
    ELSE [store |-> [store EXCEPT ![identifier].count = @ + 1],
          result |-> [success |-> TRUE,
                      remaining |-> config.maxRequests - (store[identifier].count + 1),
                      resetTime |-> store[identifier].resetTime]]

NotInRateLimit == UNCHANGED <<envVars, setVars, reqVars, runVars, clnVars, histVars,
                              ordVars>>

\* the window of an identifier by the clock alone: it opens with the first
\* call made while no window is open and lasts windowMs
InWindow(identifier) ==
    /\ identifier \in DOMAIN calls
    /\ now <= calls[identifier].start + rlConfig.windowMs

\* the calls of the window are counted up to one more than maxRequests
CallsAfter(identifier) ==
    IF InWindow(identifier)
    THEN [calls EXCEPT ![identifier].n = Min(@ + 1, rlConfig.maxRequests + 1)]
    ELSE (identifier :> [start |-> now, n |-> 1,
                         again |-> identifier \in DOMAIN calls]) @@ calls

ZeroAges == [d \in 0..(rlConfig.windowMs - 1) |-> 0]

RecentAfter(identifier, success) ==
    IF ~success THEN recent
    ELSE LET old == IF identifier \in DOMAIN recent THEN recent[identifier]
                    ELSE ZeroAges
         IN (identifier :> [old EXCEPT ![0] = @ + 1]) @@ recent

\* const rateLimitResult = checkRateLimit(identifier, config)
RateLimitApply(identifier) ==
    LET out == checkRateLimit(rateLimitStore, identifier, rlConfig, now)
    IN /\ rateLimitStore' = out.store
       /\ rlResult' = out.result
       /\ granted' =
              IF ~out.result.success THEN granted
              ELSE IF identifier \in DOMAIN granted /\ now <= granted[identifier].until
              THEN [granted EXCEPT ![identifier].n = @ + 1]
              ELSE (identifier :> [until |-> out.result.resetTime, n |-> 1]) @@ granted
       /\ calls' = CallsAfter(identifier)
       /\ rlCall' = [identifier |-> identifier, at |-> now]
       /\ recent' = RecentAfter(identifier, out.result.success)
       /\ UNCHANGED <<now, rlConfig>>

\* mutation: every identifier is counted on one entry
RateLimitCallOneKey(identifier) ==
    /\ RateLimitApply(CHOOSE k \in Identifiers : TRUE)
    /\ NotInRateLimit

\* one request calls checkRateLimit(identifier, config); the call runs to
\* its end before any other request continues
RateLimitCall(identifier) ==
    /\ RateLimitApply(identifier)
    /\ NotInRateLimit

\* mutation: the sweep deletes every entry, expired or not
RateLimitSweepAll ==
    /\ DOMAIN rateLimitStore # {}
    /\ rateLimitStore' = EmptyMap
    /\ UNCHANGED <<now, rlConfig, rlResult, granted, calls, rlCall, recent>>
    /\ NotInRateLimit

\* setInterval callback: expired entries are deleted
RateLimitSweep ==
    /\ \E k \in DOMAIN rateLimitStore : rateLimitStore[k].resetTime < now
    /\ rateLimitStore' = [k \in {x \in DOMAIN rateLimitStore :
                                    ~(rateLimitStore[x].resetTime < now)} |->
                             rateLimitStore[k]]
    /\ UNCHANGED <<now, rlConfig, rlResult, granted, calls, rlCall, recent>>
    /\ NotInRateLimit

Tick ==
    /\ now < MaxTime
    /\ now' = now + 1
    /\ recent' = [k \in DOMAIN recent |->
                     [d \in 0..(rlConfig.windowMs - 1) |->
                         IF d = 0 THEN 0 ELSE recent[k][d - 1]]]
    /\ UNCHANGED <<rateLimitStore, rlConfig, rlResult, granted, calls, rlCall>>
    /\ NotInRateLimit

InitRateLimit ==
    /\ now = 1
    /\ rateLimitStore = EmptyMap
    /\ rlConfig \in [windowMs : {WindowMs}, maxRequests : 1..MaxRequests]
    /\ rlResult = NoRateLimitResult
    /\ granted = EmptyMap
    /\ calls = EmptyMap
    /\ rlCall = NoRateLimitCall
    /\ recent = EmptyMap
    /\ repos = [r \in Remote |-> DefaultRepo(r, IF r = RepoA THEN 2 ELSE 1)]
    /\ IdleCleanup /\ IdleRun /\ IdleSettings /\ IdleHistory /\ IdleOrder

NextRateLimit ==
    \/ \E identifier \in Identifiers : RateLimitCall(identifier)
    \/ RateLimitSweep
    \/ Tick

SpecRateLimit == InitRateLimit /\ [][NextRateLimit]_vars

\* C10: in whatever order requests call checkRateLimit, at most maxRequests
\* calls on one identifier are admitted from the creation of its entry to
\* the entry's resetTime, and the stored count never exceeds maxRequests.
C10RateBound ==
    /\ \A k \in DOMAIN granted : granted[k].n <= rlConfig.maxRequests
    /\ \A k \in DOMAIN rateLimitStore : rateLimitStore[k].count <= rlConfig.maxRequests

\* the limit of one identifier is used up and a further call was rejected,
\* while the other identifier has an entry of its own
C10Witness ==
    /\ KeyOne \in DOMAIN granted
    /\ granted[KeyOne].n = rlConfig.maxRequests
    /\ rlConfig.maxRequests >= 2
    /\ KeyOne \in DOMAIN rateLimitStore
    /\ now <= rateLimitStore[KeyOne].resetTime
    /\ ~rlResult.success
    /\ KeyTwo \in DOMAIN rateLimitStore


\* C11: from no entry for a key, the i-th call of a window (i <= maxRequests)
\* is allowed with remaining = maxRequests - i, every further call of the
\* window is refused with remaining = 0, and the first call after the
\* window has elapsed is allowed with remaining = maxRequests - 1 and
\* resetTime = now + windowMs.
C11RateSequence ==
    rlCall.at # 0 =>
        LET c == calls[rlCall.identifier]
            m == rlConfig.maxRequests
        IN /\ c.n <= m =>
                 /\ rlResult.success
                 /\ rlResult.remaining = m - c.n
           /\ c.n > m =>
                 /\ ~rlResult.success
                 /\ rlResult.remaining = 0
           /\ rlResult.resetTime = c.start + rlConfig.windowMs
           /\ c.n = 1 =>
                 /\ c.start = rlCall.at
                 /\ rlResult.resetTime = rlCall.at + rlConfig.windowMs

\* the first call after an earlier window of the key has elapsed
C11Witness ==
    /\ rlCall.identifier = KeyOne
    /\ rlCall.at = now
    /\ calls[KeyOne].again
    /\ calls[KeyOne].n = 1
    /\ rlConfig.maxRequests >= 2
    /\ rlResult.success
    /\ rlResult.remaining = rlConfig.maxRequests - 1
    /\ rlResult.resetTime = now + rlConfig.windowMs

\* what a call on identifier would return in this state
WouldReturn(store, identifier) == checkRateLimit(store, identifier, rlConfig, now).result

\* C12: a call on key k1 leaves the entry of every other key k2 as it was,
\* present or absent, and does not change what a call on k2 returns.
C12KeyIndependence ==
    [][\A k1, k2 \in Identifiers :
          (k1 # k2 /\ RateLimitCall(k1)) =>
              /\ (k2 \in DOMAIN rateLimitStore') <=> (k2 \in DOMAIN rateLimitStore)
              /\ k2 \in DOMAIN rateLimitStore => rateLimitStore'[k2] = rateLimitStore[k2]
              /\ WouldReturn(rateLimitStore', k2) = WouldReturn(rateLimitStore, k2)]_vars

\* one key was just refused while the other key has one call on an entry of
\* its own
C12Witness ==
    /\ rlCall.identifier = KeyOne
    /\ ~rlResult.success
    /\ KeyOne \in DOMAIN rateLimitStore
    /\ KeyTwo \in DOMAIN rateLimitStore
    /\ rateLimitStore[KeyTwo].count = 1
    /\ rateLimitStore[KeyOne].count = rlConfig.maxRequests
    /\ rateLimitStore[KeyOne].resetTime # rateLimitStore[KeyTwo].resetTime
    /\ WouldReturn(rateLimitStore, KeyTwo).success

RECURSIVE SumAges(_, _)
SumAges(f, d) == IF d < 0 THEN 0 ELSE f[d] + SumAges(f, d - 1)

\* C13: in every interval of windowMs, at most maxRequests calls of one
\* identifier are admitted (sliding window).
C13SlidingQuota ==
    \A k \in DOMAIN recent :
        SumAges(recent[k], rlConfig.windowMs - 1) <= rlConfig.maxRequests


\* the entry of identifier exists and has not expired
Unexpired(identifier) ==
    /\ identifier \in DOMAIN rateLimitStore
    /\ ~(rateLimitStore[identifier].resetTime < now)

\* C21: a call on a key whose entry has not expired leaves the resetTime of
\* the entry as it was and returns it, admitted or refused; a refused call
\* leaves the count as it was too.
C21FixedWindowFrame ==
    [][\A k \in Identifiers :
          (Unexpired(k) /\ RateLimitCall(k)) =>
              /\ k \in DOMAIN rateLimitStore'
              /\ rateLimitStore'[k].resetTime = rateLimitStore[k].resetTime
              /\ rlResult'.resetTime = rateLimitStore[k].resetTime
              /\ ~rlResult'.success => rateLimitStore'[k] = rateLimitStore[k]
              /\ rlResult'.success => rateLimitStore'[k].count = rateLimitStore[k].count + 1]_vars

\* a call at the very reset time of a used-up entry was refused, and an
\* earlier call of the window, later than its first, had been admitted
C21Witness ==
    /\ rlCall = [identifier |-> KeyTwo, at |-> now]
    /\ Unexpired(KeyTwo)
    /\ rateLimitStore[KeyTwo].resetTime = now
    /\ rateLimitStore[KeyTwo].count = rlConfig.maxRequests
    /\ rlConfig.maxRequests = MaxRequests
    /\ rlResult = [success |-> FALSE, remaining |-> 0, resetTime |-> now]
    /\ calls[KeyTwo].start + rlConfig.windowMs = now

(***************************************************************************)
(* POST /api/sync/[secret]: the whole handler, from the request on.        *)
(***************************************************************************)
\* Math.ceil(a / b) for b > 0
CeilDiv(a, b) == IF a % b = 0 THEN a \div b ELSE (a \div b) + 1

\* the request ends with an answer that carries no counts
Answer(status, error, message) ==
    response' = [NoResponse EXCEPT !.status = status, !.error = error,
                                   !.message = message]

NotInGate ==
    /\ UNCHANGED <<envVars, setVars, reqVars, clnVars, ordVars>>
    /\ UNCHANGED <<reposToSync, currentOrder, isOrdered, it, loc, results>>
    /\ UNCHANGED <<visits, bump>>

\* uuidRegex.test(secret) is false
PostBadSecret ==
    /\ pc = "request"
    /\ ~uuidRegexTest(secret)
    /\ Answer(400, "Invalid request", "")
    /\ pc' = "end"
    /\ UNCHANGED <<syncLog, issued, lastCallPos>>
    /\ UNCHANGED rlVars
    /\ NotInGate

\* mutation: the answer of the limiter is not looked at
PostRateLimitNoGate ==
    /\ pc = "request"
    /\ uuidRegexTest(secret)
    /\ RateLimitApply(SyncKey(secret))
    /\ pc' = "findFirst"
    /\ UNCHANGED <<response, syncLog, issued, lastCallPos>>
    /\ NotInGate

\* checkRateLimit(`sync:${secret}`, rateLimits.sync) and the 429 answer
PostRateLimit ==
    /\ pc = "request"
    /\ uuidRegexTest(secret)
    /\ RateLimitApply(SyncKey(secret))
    /\ IF rlResult'.success
       THEN /\ pc' = "findFirst"
            /\ UNCHANGED response
       ELSE /\ pc' = "end"
            /\ response' =
                   [NoResponse EXCEPT
                       !.status = 429,
                       !.error = "Too many requests. Please try again later.",
                       !.headers = [retryAfter |-> CeilDiv(rlResult'.resetTime - now, 1000),
                                    remaining |-> 0,
                                    reset |-> rlResult'.resetTime]]
    /\ UNCHANGED <<syncLog, issued, lastCallPos>>
    /\ NotInGate

\* prisma.repoOrder.findFirst({where: {syncSecret: secret}}) and the checks
\* of the row
PostFindFirst ==
    /\ pc = "findFirst"
    /\ IF account.syncSecret # secret \/ ~account.user
       THEN Answer(401, "Invalid request", "") /\ pc' = "end"
       ELSE IF ~account.installationId
       THEN Answer(400, "Configuration error", "") /\ pc' = "end"
       ELSE IF ~account.autoEnabled
       THEN Answer(200, "", "Sync disabled") /\ pc' = "end"
       ELSE UNCHANGED response /\ pc' = "createApp"
    /\ Issue("findFirst")
    /\ UNCHANGED syncLog
    /\ UNCHANGED rlVars
    /\ NotInGate

\* createAppOctokit throws: the failure is logged and answered with 401
PostAppFails ==
    /\ pc = "createApp"
    /\ syncLog' = Append(syncLog, [action |-> "auto_sync", status |-> "error",
                                   successful |-> Null, failed |-> Null])
    /\ Answer(401, "GitHub App authentication failed. Please reinstall the app.", "")
    /\ pc' = "end"
    /\ UNCHANGED <<issued, lastCallPos>>
    /\ UNCHANGED rlVars
    /\ NotInGate

\* JSON.parse(repoOrder.reposOrder)
PostParse ==
    /\ pc = "createApp"
    /\ IF account.stored = "malformed"
       THEN Answer(400, "Invalid configuration", "") /\ pc' = "end"
       ELSE UNCHANGED response /\ pc' = "start"
    /\ UNCHANGED <<syncLog, issued, lastCallPos>>
    /\ UNCHANGED rlVars
    /\ NotInGate

\* settings rows: the default one and those that differ from it in one field
Accounts ==
    {DefaultAccount,
     [DefaultAccount EXCEPT !.user = FALSE],
     [DefaultAccount EXCEPT !.installationId = FALSE],
     [DefaultAccount EXCEPT !.autoEnabled = FALSE],
     [DefaultAccount EXCEPT !.stored = "malformed"],
     [DefaultAccount EXCEPT !.stored = "other"]}

\* entries earlier requests can have left for a key: used once or used up,
\* expired, at its reset time, or just created
EntriesAt(t) ==
    [count : {1, MaxRequests}, resetTime : {t - 1, t, t + WindowMs}]

InitGate ==
    /\ secret \in Secrets
    /\ other = NoOther
    /\ account \in Accounts
    /\ reposOrder \in Orders
    /\ account.stored # "array" => reposOrder = <<>>
    /\ topN = MaxRepos
    /\ commitStrategy \in {"revert", "branch"}
    /\ repos = [r \in Remote |-> DefaultRepo(r, IF r = RepoA THEN 2 ELSE 1)]
    /\ pc = "request"
    /\ reposToSync = <<>>
    /\ currentOrder = <<>>
    /\ isOrdered = FALSE
    /\ it = 0
    /\ loc = NoLoc
    /\ results = <<>>
    /\ syncLog = <<>>
    /\ response = NoResponse
    /\ IdleCleanup
    /\ issued = {}
    /\ lastCallPos = 0
    /\ visits = [p \in 1..Len(reposOrder) |-> 0]
    /\ bump = [p \in 1..Len(reposOrder) |-> ""]
    /\ IdleOrder
    /\ now = MaxTime
    /\ rlConfig = [windowMs |-> WindowMs, maxRequests |-> MaxRequests]
    /\ \/ rateLimitStore = EmptyMap
       \/ \E k \in Identifiers, e \in EntriesAt(now) :
             rateLimitStore = (k :> e)
    /\ rlResult = NoRateLimitResult
    /\ granted = EmptyMap
    /\ calls = EmptyMap
    /\ rlCall = NoRateLimitCall
    /\ recent = EmptyMap

NextGate ==
    \/ PostBadSecret
    \/ PostRateLimit
    \/ PostFindFirst
    \/ PostAppFails
    \/ PostParse
    \/ Next

SpecGate == InitGate /\ [][NextGate]_vars

\* the limiter was called for this request and admitted it
GateAdmitted ==
    /\ uuidRegexTest(secret)
    /\ rlCall = [identifier |-> SyncKey(secret), at |-> now]
    /\ rlResult.success

\* what a request that is not admitted may have done: nothing
NothingDone ==
    /\ issued = {}
    /\ syncLog = <<>>
    /\ pc \in {"request", "end"}
    /\ repos = [r \in Remote |-> DefaultRepo(r, IF r = RepoA THEN 2 ELSE 1)]

C20GateState ==
    /\ ~GateAdmitted => NothingDone
    /\ (rlCall # NoRateLimitCall /\ ~rlResult.success) =>
          /\ pc = "end"
          /\ response.status = 429
    /\ response.status = 429 =>
          /\ ~rlResult.success
          /\ rlCall.identifier = SyncKey(secret)
          /\ SyncKey(secret) \in DOMAIN rateLimitStore
          /\ response.headers.remaining = 0
          /\ response.headers.reset = rateLimitStore[SyncKey(secret)].resetTime
          /\ response.headers.retryAfter # Undefined
          /\ response.headers.retryAfter >= 0
    /\ ~uuidRegexTest(secret) =>
          /\ rlCall = NoRateLimitCall
          /\ pc = "end" => response.status = 400

C20GateStep ==
    (~uuidRegexTest(secret) \/ response'.status = 429) => rateLimitStore' = rateLimitStore

\* C20: nothing is read from the settings store, asked of the hosting API
\* or written to the audit log for a request before checkRateLimit has
\* admitted it; a request the limiter refuses ends with 429, Retry-After,
\* X-RateLimit-Remaining = 0 and X-RateLimit-Reset = the stored resetTime;
\* a request with a malformed secret ends with 400 and changes no
\* rate-limit entry.
C20GateOrder == []C20GateState /\ [][C20GateStep]_vars

\* a request was refused on an entry that was used up and is at its reset
\* time
C20Witness ==
    /\ pc = "end"
    /\ response.status = 429
    /\ secret = SecretKnown
    /\ rateLimitStore[SyncKey(secret)] = [count |-> MaxRequests, resetTime |-> now]
    /\ response.headers = [retryAfter |-> 0, remaining |-> 0, reset |-> now]
    /\ issued = {}
    /\ syncLog = <<>>

=============================================================================
